---- MODULE Spec2Model ----
(***************************************************************************)
(* Request/response cryptographic envelope of the WhatsApp Flows endpoint: *)
(* signature verifier (server.py), envelope codec (encryption.py), screen  *)
(* logic (flow.py) and the POST "/" handler that sequences them.           *)
(*                                                                         *)
(* Text and byte strings are sequences of code points / byte values.       *)
(* Python's None is the one-element sequence <<-1>>, which is no string.   *)
(***************************************************************************)
EXTENDS Integers, Sequences, FiniteSets, TLC

None == <<-1>>

(* ---------------------------------------------------------------------- *)
(* Text literals                                                           *)
(* ---------------------------------------------------------------------- *)

(* printable ASCII without backslash (92) and backquote (96) *)
ASCII_32_91 ==
  " !\"#$%&'(" \o ")*+,-./0123456789:;<=>?@ABCDEFGHIJKLMNOPQRSTUVWXYZ["

ASCII_93_95 == "]^_"

ASCII_97_126 == "abcdefghijklmnopqrstuvwxyz{|}~"

IndexIn(str, c) ==
  IF \E i \in 1..Len(str) : SubSeq(str, i, i) = c
  THEN CHOOSE i \in 1..Len(str) : SubSeq(str, i, i) = c
  ELSE 0

Ord(c) ==
  IF IndexIn(ASCII_32_91, c) > 0 THEN 31 + IndexIn(ASCII_32_91, c)
  ELSE IF IndexIn(ASCII_93_95, c) > 0 THEN 92 + IndexIn(ASCII_93_95, c)
  ELSE 96 + IndexIn(ASCII_97_126, c)

S(str) == [i \in 1..Len(str) |-> Ord(SubSeq(str, i, i))]

T_3_0 == S("3.0")

T_BANG == S("!")

T_COLON == S(": ")

T_COMMA == S(", ")

T_DETAILS == S("DETAILS")

T_False == S("False")

T_INIT == S("INIT")

T_LBRACE == S("{")

T_LBRACKET == S("[")

T_MINUS == S("-")

T_None == S("None")

T_Q == S("Q")

T_RBRACE == S("}")

T_RBRACKET == S("]")

T_SQUOTE == S("'")

T_SQUOTE_COLON == S("': ")

T_SUCCESS == S("SUCCESS")

T_True == S("True")

T_User == S("User")

T_WELCOME == S("WELCOME")

T_action == S("action")

T_active == S("active")

T_app_secret == S("app-secret")

T_bad == S("bad")

T_confirmation_id == S("confirmation_id")

T_data == S("data")

T_data_exchange == S("data_exchange")

T_email == S("email")

T_encrypted_aes_key == S("encrypted_aes_key")

T_encrypted_flow_data == S("encrypted_flow_data")

T_error == S("error")

T_extension_message_response == S("extension_message_response")

T_false == S("false")

T_flow_token == S("flow_token")

T_initial_vector == S("initial_vector")

T_message == S("message")

T_name == S("name")

T_not_json == S("not json")

T_null == S("null")

T_other_secret == S("other-secret")

T_params == S("params")

T_phone == S("phone")

T_ping == S("ping")

T_please_provide == S("Please provide more details")

T_pw == S("pw")

T_screen == S("screen")

T_sha256_eq == S("sha256=")

T_some_param_name == S("some_param_name")

T_some_param_value == S("some_param_value")

T_status == S("status")

T_success == S("success")

T_test_aes_key == S("0123456789abcdef")

T_test_iv == S("fedcba9876543210")

T_thank_you == S("Thank you, ")

T_tok == S("tok")

T_true == S("true")

T_unknown_action == S("Unknown action: ")

T_unknown_screen == S("Unknown screen: ")

T_user_name == S("user_name")

T_version == S("version")

T_welcome_message == S("welcome_message")

T_welcome_to == S("Welcome to our service!")

RECURSIVE SumRange(_, _, _)
SumRange(s, lo, hi) ==
  IF lo > hi THEN 0
  ELSE IF lo = hi THEN s[lo]
  ELSE LET mid == (lo + hi) \div 2
       IN SumRange(s, lo, mid) + SumRange(s, mid + 1, hi)

SumSeq(s) == SumRange(s, 1, Len(s))

StartsWith(s, p) == Len(s) >= Len(p) /\ SubSeq(s, 1, Len(p)) = p

Drop(s, n) == SubSeq(s, n + 1, Len(s))

(* bitwise operations on bytes *)
RECURSIVE XorBits(_, _, _)
XorBits(a, b, n) ==
  IF n = 0 THEN 0
  ELSE (((a % 2) + (b % 2)) % 2) + 2 * XorBits(a \div 2, b \div 2, n - 1)

Xor(a, b) == XorBits(a, b, 8)

(* ---------------------------------------------------------------------- *)
(* str.replace(old, "")                                                    *)
(* ---------------------------------------------------------------------- *)

Min(set) == CHOOSE x \in set : \A y \in set : x <= y

(* leftmost occurrences, not overlapping, are dropped in one pass *)
RECURSIVE Remove(_, _)
Remove(s, old) ==
  LET hits == {j \in 1..(Len(s) - Len(old) + 1) :
                 SubSeq(s, j, j + Len(old) - 1) = old}
  IN IF hits = {} THEN s
     ELSE SubSeq(s, 1, Min(hits) - 1)
          \o Remove(Drop(s, Min(hits) + Len(old) - 1), old)

(* ---------------------------------------------------------------------- *)
(* HMAC-SHA256 hex digest                                                  *)
(* ---------------------------------------------------------------------- *)

SHA256_HEX_LEN == 64

HexDigit(n) == IF n < 10 THEN 48 + n ELSE 87 + n

(* i-th nibble of the key, zero-padded to the digest width *)
KeyNibble(key, i) ==
  LET j == (i + 1) \div 2
  IN IF j > Len(key) THEN 0
     ELSE IF i % 2 = 1 THEN key[j] \div 16 ELSE key[j] % 16

MsgNibble(sum, len, i) == (sum * (2 * i + 1) + len + 5 * i) % 16

Mix(key, sum, len) ==
  [i \in 1..SHA256_HEX_LEN |-> (KeyNibble(key, i) + MsgNibble(sum, len, i)) % 16]

(* Idealised HMAC-SHA256: a keyed digest of SHA256_HEX_LEN nibbles that is *)
(* collision-free in the key for every message (keys of at most 32 bytes). *)
HmacSha256(key, msg) == Mix(key, SumSeq(msg), Len(msg))

HexDigest(nibbles) == [i \in 1..Len(nibbles) |-> HexDigit(nibbles[i])]

IsAscii(s) == \A i \in 1..Len(s) : s[i] < 128

(* hmac.compare_digest on two str arguments *)
CompareDigest(a, b) ==
  IF ~(IsAscii(a) /\ IsAscii(b))
  THEN [exc |-> "TypeError", ret |-> FALSE]
  ELSE [exc |-> "none", ret |-> (a = b)]

(* ---------------------------------------------------------------------- *)
(* server.py: is_request_signature_valid                                   *)
(* ---------------------------------------------------------------------- *)

SHA256_PREFIX == T_sha256_eq

Falsy(v) == v = None \/ v = <<>>

IsRequestSignatureValidNoSecretCheck(app_secret, signature_header, raw_body) ==
  IF Falsy(signature_header) THEN [exc |-> "none", ret |-> FALSE]
  ELSE LET key == IF app_secret = None THEN <<>> ELSE app_secret
           signature == Remove(signature_header, SHA256_PREFIX)
           expected_signature == HexDigest(HmacSha256(key, raw_body))
       IN CompareDigest(expected_signature, signature)

IsRequestSignatureValidAcceptAll(app_secret, signature_header, raw_body) ==
  IF Falsy(app_secret) \/ Falsy(signature_header)
  THEN [exc |-> "none", ret |-> FALSE]
  ELSE [exc |-> "none", ret |-> TRUE]

IsRequestSignatureValid(app_secret, signature_header, raw_body) ==
  IF Falsy(app_secret) THEN [exc |-> "none", ret |-> FALSE]
  ELSE IF Falsy(signature_header) THEN [exc |-> "none", ret |-> FALSE]
  ELSE LET signature == Remove(signature_header, SHA256_PREFIX)
           expected_signature == HexDigest(HmacSha256(app_secret, raw_body))
       IN CompareDigest(expected_signature, signature)

(* ---------------------------------------------------------------------- *)
(* base64.b64encode / base64.b64decode (non-strict)                        *)
(* ---------------------------------------------------------------------- *)

B64Char(v) ==
  IF v < 26 THEN 65 + v
  ELSE IF v < 52 THEN 97 + (v - 26)
  ELSE IF v < 62 THEN 48 + (v - 52)
  ELSE IF v = 62 THEN 43 ELSE 47

(* value of an alphabet character, 64 for any other character *)
B64Value(c) ==
  IF c >= 65 /\ c <= 90 THEN c - 65
  ELSE IF c >= 97 /\ c <= 122 THEN c - 97 + 26
  ELSE IF c >= 48 /\ c <= 57 THEN c - 48 + 52
  ELSE IF c = 43 THEN 62
  ELSE IF c = 47 THEN 63
  ELSE 64

B64_PAD == 61

ByteAt(b, i) == IF i <= Len(b) THEN b[i] ELSE 0

(* output character k of the encoding of b *)
B64EncodeChar(b, k) ==
  LET q == 3 * ((k - 1) \div 4)
      r == (k - 1) % 4
      b1 == ByteAt(b, q + 1)
      b2 == ByteAt(b, q + 2)
      b3 == ByteAt(b, q + 3)
  IN IF r = 0 THEN B64Char(b1 \div 4)
     ELSE IF r = 1 THEN B64Char((b1 % 4) * 16 + (b2 \div 16))
     ELSE IF r = 2 THEN
       (IF q + 2 > Len(b) THEN B64_PAD ELSE B64Char((b2 % 16) * 4 + (b3 \div 64)))
     ELSE (IF q + 3 > Len(b) THEN B64_PAD ELSE B64Char(b3 % 64))

B64Encode(b) ==
  [k \in 1..(4 * ((Len(b) + 2) \div 3)) |-> B64EncodeChar(b, k)]

(* the scan of binascii.a2b_base64: quad_pos, pads and leftchar as in C *)
RECURSIVE B64Scan(_, _, _, _, _, _)
B64Scan(s, i, quad_pos, pads, leftchar, out) ==
  IF i > Len(s) THEN
    IF quad_pos # 0 THEN [exc |-> "binascii.Error", val |-> <<>>]
    ELSE [exc |-> "none", val |-> out]
  ELSE IF s[i] = B64_PAD THEN
    IF quad_pos >= 2 /\ quad_pos + pads + 1 >= 4
    THEN [exc |-> "none", val |-> out]
    ELSE B64Scan(s, i + 1, quad_pos,
                 IF quad_pos >= 2 THEN pads + 1 ELSE pads, leftchar, out)
  ELSE LET v == B64Value(s[i]) IN
    IF v >= 64 THEN B64Scan(s, i + 1, quad_pos, pads, leftchar, out)
    ELSE IF quad_pos = 0 THEN B64Scan(s, i + 1, 1, 0, v, out)
    ELSE IF quad_pos = 1 THEN
      B64Scan(s, i + 1, 2, 0, v % 16, Append(out, leftchar * 4 + (v \div 16)))
    ELSE IF quad_pos = 2 THEN
      B64Scan(s, i + 1, 3, 0, v % 4, Append(out, leftchar * 16 + (v \div 4)))
    ELSE B64Scan(s, i + 1, 0, 0, 0, Append(out, leftchar * 64 + v))

(* a string the scan reads quad by quad: alphabet characters only, with  *)
(* at most two pads closing the last quad                                 *)
B64Canonical(s) ==
  /\ Len(s) % 4 = 0
  /\ \A i \in 1..Len(s) :
       \/ B64Value(s[i]) < 64
       \/ s[i] = B64_PAD /\ i >= Len(s) - 1 /\ (i = Len(s) \/ s[Len(s)] = B64_PAD)

B64Pads(s) ==
  IF Len(s) = 0 \/ s[Len(s)] # B64_PAD THEN 0
  ELSE IF s[Len(s) - 1] # B64_PAD THEN 1 ELSE 2

(* output byte m of the scan of a canonical string *)
B64DecodeByte(s, m) ==
  LET q == 4 * ((m - 1) \div 3)
      r == (m - 1) % 3
      v1 == B64Value(s[q + 1])
      v2 == B64Value(s[q + 2])
      v3 == B64Value(s[q + 3])
      v4 == B64Value(s[q + 4])
  IN IF r = 0 THEN v1 * 4 + (v2 \div 16)
     ELSE IF r = 1 THEN (v2 % 16) * 16 + (v3 \div 4)
     ELSE (v3 % 4) * 64 + v4

(* base64.b64decode(s): None is a TypeError, a non-ASCII str a ValueError; *)
(* a canonical string is decoded quad by quad, any other by the scan       *)
B64Decode(s) ==
  IF s = None THEN [exc |-> "TypeError", val |-> <<>>]
  ELSE IF ~IsAscii(s) THEN [exc |-> "ValueError", val |-> <<>>]
  ELSE IF B64Canonical(s) THEN
    [exc |-> "none",
     val |-> [m \in 1..(3 * (Len(s) \div 4) - B64Pads(s)) |-> B64DecodeByte(s, m)]]
  ELSE B64Scan(s, 1, 0, 0, 0, <<>>)

(* ---------------------------------------------------------------------- *)
(* JSON values, json.dumps and json.loads                                  *)
(* A value is [t, v]; an object's v is a sequence of <<key, value>> pairs  *)
(* in insertion order with distinct keys.  Text is ASCII; the only string  *)
(* escapes are \" and \\.                                                  *)
(* ---------------------------------------------------------------------- *)

JStr(s) == [t |-> "str", v |-> s]

JNull == [t |-> "null", v |-> <<>>]

JBool(b) == [t |-> "bool", v |-> <<IF b THEN 1 ELSE 0>>]

JInt(n) == [t |-> "int", v |-> <<n>>]

JArr(items) == [t |-> "arr", v |-> items]

JObj(pairs) == [t |-> "obj", v |-> pairs]

IsObj(j) == j.t = "obj"

HasKey(j, k) == \E i \in 1..Len(j.v) : j.v[i][1] = k

(* dict.get(k, default) *)
Get(j, k, default) ==
  IF HasKey(j, k)
  THEN j.v[CHOOSE i \in 1..Len(j.v) : j.v[i][1] = k][2]
  ELSE default

(* d[k] = val *)
Put(pairs, k, val) ==
  IF \E i \in 1..Len(pairs) : pairs[i][1] = k
  THEN [i \in 1..Len(pairs) |-> IF pairs[i][1] = k THEN <<k, val>> ELSE pairs[i]]
  ELSE Append(pairs, <<k, val>>)

QUOTE == 34

BACKSLASH == 92

RECURSIVE DumpsChars(_)
DumpsChars(s) ==
  IF s = <<>> THEN <<>>
  ELSE IF Head(s) = QUOTE \/ Head(s) = BACKSLASH
       THEN <<BACKSLASH, Head(s)>> \o DumpsChars(Tail(s))
       ELSE <<Head(s)>> \o DumpsChars(Tail(s))

DumpsString(s) ==
  IF \A i \in 1..Len(s) : s[i] # QUOTE /\ s[i] # BACKSLASH
  THEN <<QUOTE>> \o s \o <<QUOTE>>
  ELSE <<QUOTE>> \o DumpsChars(s) \o <<QUOTE>>

RECURSIVE DumpsNat(_)
DumpsNat(n) ==
  IF n < 10 THEN <<48 + n>> ELSE DumpsNat(n \div 10) \o <<48 + (n % 10)>>

RECURSIVE Dumps(_)
RECURSIVE DumpsMembers(_)
RECURSIVE DumpsElements(_)
DumpsMembers(pairs) ==
  IF pairs = <<>> THEN <<>>
  ELSE DumpsString(pairs[1][1]) \o T_COLON \o Dumps(pairs[1][2])
       \o (IF Len(pairs) > 1 THEN T_COMMA ELSE <<>>)
       \o DumpsMembers(Tail(pairs))

DumpsElements(items) ==
  IF items = <<>> THEN <<>>
  ELSE Dumps(items[1])
       \o (IF Len(items) > 1 THEN T_COMMA ELSE <<>>)
       \o DumpsElements(Tail(items))

(* json.dumps with the default separators *)
Dumps(j) ==
  IF j.t = "str" THEN DumpsString(j.v)
  ELSE IF j.t = "null" THEN T_null
  ELSE IF j.t = "bool" THEN (IF j.v[1] = 1 THEN T_true ELSE T_false)
  ELSE IF j.t = "int" THEN
    (IF j.v[1] < 0 THEN T_MINUS \o DumpsNat(-j.v[1]) ELSE DumpsNat(j.v[1]))
  ELSE IF j.t = "arr" THEN T_LBRACKET \o DumpsElements(j.v) \o T_RBRACKET
  ELSE T_LBRACE \o DumpsMembers(j.v) \o T_RBRACE

ParseError == [ok |-> FALSE, val |-> JNull, pos |-> 0]

ParseOk(val, pos) == [ok |-> TRUE, val |-> val, pos |-> pos]

IsWs(c) == c \in {32, 9, 10, 13}

IsDigit(c) == c >= 48 /\ c <= 57

RECURSIVE SkipWs(_, _)
SkipWs(s, i) == IF i <= Len(s) /\ IsWs(s[i]) THEN SkipWs(s, i + 1) ELSE i

(* i is the position after the opening quote; the scan with escapes *)
RECURSIVE ParseStringScan(_, _, _)
ParseStringScan(s, i, acc) ==
  IF i > Len(s) THEN ParseError
  ELSE IF s[i] = QUOTE THEN ParseOk(JStr(acc), i + 1)
  ELSE IF s[i] = BACKSLASH THEN
    IF i + 1 <= Len(s) /\ s[i + 1] \in {QUOTE, BACKSLASH}
    THEN ParseStringScan(s, i + 2, Append(acc, s[i + 1]))
    ELSE ParseError
  ELSE IF s[i] < 32 THEN ParseError
  ELSE ParseStringScan(s, i + 1, Append(acc, s[i]))

(* a string without escapes ends at the first quote *)
ParseString(s, i) ==
  LET quotes == {j \in i..Len(s) : s[j] = QUOTE} IN
  IF quotes = {} THEN ParseError
  ELSE LET text == SubSeq(s, i, Min(quotes) - 1) IN
    IF \E k \in 1..Len(text) : text[k] = BACKSLASH
    THEN ParseStringScan(s, i, <<>>)
    ELSE IF \E k \in 1..Len(text) : text[k] < 32 THEN ParseError
    ELSE ParseOk(JStr(text), Min(quotes) + 1)

RECURSIVE ParseDigits(_, _, _)
ParseDigits(s, i, acc) ==
  IF i <= Len(s) /\ IsDigit(s[i])
  THEN ParseDigits(s, i + 1, acc * 10 + (s[i] - 48))
  ELSE ParseOk(JInt(acc), i)

ParseLiteral(s, i, word, val) ==
  IF StartsWith(Drop(s, i - 1), word) THEN ParseOk(val, i + Len(word))
  ELSE ParseError

RECURSIVE ParseValue(_, _)
RECURSIVE ParseMembers(_, _, _)
RECURSIVE ParseElements(_, _, _)
(* i is the position of the next member's key (after "{" or ",") *)
ParseMembers(s, i0, acc) ==
  LET i == SkipWs(s, i0) IN
  IF i > Len(s) \/ s[i] # QUOTE THEN ParseError
  ELSE LET k == ParseString(s, i + 1) IN
    IF ~k.ok THEN ParseError
    ELSE LET c == SkipWs(s, k.pos) IN
      IF c > Len(s) \/ s[c] # 58 THEN ParseError
      ELSE LET val == ParseValue(s, SkipWs(s, c + 1)) IN
        IF ~val.ok THEN ParseError
        ELSE LET e == SkipWs(s, val.pos)
                 acc2 == Put(acc, k.val.v, val.val)
             IN IF e > Len(s) THEN ParseError
                ELSE IF s[e] = 125 THEN ParseOk(JObj(acc2), e + 1)
                ELSE IF s[e] = 44 THEN ParseMembers(s, e + 1, acc2)
                ELSE ParseError

ParseElements(s, i0, acc) ==
  LET val == ParseValue(s, SkipWs(s, i0)) IN
  IF ~val.ok THEN ParseError
  ELSE LET e == SkipWs(s, val.pos)
           acc2 == Append(acc, val.val)
       IN IF e > Len(s) THEN ParseError
          ELSE IF s[e] = 93 THEN ParseOk(JArr(acc2), e + 1)
          ELSE IF s[e] = 44 THEN ParseElements(s, e + 1, acc2)
          ELSE ParseError

ParseValue(s, i) ==
  IF i > Len(s) THEN ParseError
  ELSE IF s[i] = QUOTE THEN ParseString(s, i + 1)
  ELSE IF s[i] = 123 THEN
    (LET j == SkipWs(s, i + 1) IN
     IF j <= Len(s) /\ s[j] = 125 THEN ParseOk(JObj(<<>>), j + 1)
     ELSE ParseMembers(s, j, <<>>))
  ELSE IF s[i] = 91 THEN
    (LET j == SkipWs(s, i + 1) IN
     IF j <= Len(s) /\ s[j] = 93 THEN ParseOk(JArr(<<>>), j + 1)
     ELSE ParseElements(s, j, <<>>))
  ELSE IF s[i] = 116 THEN ParseLiteral(s, i, T_true, JBool(TRUE))
  ELSE IF s[i] = 102 THEN ParseLiteral(s, i, T_false, JBool(FALSE))
  ELSE IF s[i] = 110 THEN ParseLiteral(s, i, T_null, JNull)
  ELSE IF IsDigit(s[i]) THEN ParseDigits(s, i, 0)
  ELSE IF s[i] = 45 /\ i + 1 <= Len(s) /\ IsDigit(s[i + 1]) THEN
    (LET n == ParseDigits(s, i + 1, 0) IN ParseOk(JInt(-n.val.v[1]), n.pos))
  ELSE ParseError

(* json.loads of a str: one value, surrounded by optional whitespace *)
Loads(s) ==
  LET r == ParseValue(s, SkipWs(s, 1)) IN
  IF r.ok /\ SkipWs(s, r.pos) > Len(s)
  THEN [exc |-> "none", val |-> r.val]
  ELSE [exc |-> "JSONDecodeError", val |-> JNull]

(* bytes.decode("utf-8") on the model's byte alphabet: ASCII bytes decode   *)
(* to themselves; the bytes >= 0x80 that occur (0x80, 0xFF alone) are not   *)
(* valid UTF-8.                                                             *)
Utf8Decode(b) ==
  IF IsAscii(b) THEN [exc |-> "none", val |-> b]
  ELSE [exc |-> "UnicodeDecodeError", val |-> <<>>]

(* ---------------------------------------------------------------------- *)
(* RSA-OAEP key unwrap and PEM loading (cryptography library)              *)
(* A key pair is a number; a PEM text is [present, wellformed, kp,         *)
(* password], password = None for an unencrypted key.                      *)
(* ---------------------------------------------------------------------- *)

OaepMask(kp, i) == (kp * 37 + i * 11) % 256

OaepCheck(kp, key) == (SumSeq(key) + kp * 17 + Len(key)) % 256

(* what the peer does with the public key of kp *)
RsaOaepEncrypt(kp, key) ==
  <<kp>> \o [i \in 1..Len(key) |-> Xor(key[i], OaepMask(kp, i))]
         \o <<OaepCheck(kp, key)>>

(* private_key.decrypt(blob, OAEP(MGF1(SHA256), SHA256, None)): the padding *)
(* check fails for a blob made for another key pair or changed in any byte  *)
RsaOaepDecrypt(kp, blob) ==
  IF Len(blob) < 2 \/ blob[1] # kp THEN [exc |-> "ValueError", val |-> <<>>]
  ELSE LET key == [i \in 1..(Len(blob) - 2) |-> Xor(blob[i + 1], OaepMask(kp, i))]
       IN IF blob[Len(blob)] # OaepCheck(kp, key)
          THEN [exc |-> "ValueError", val |-> <<>>]
          ELSE [exc |-> "none", val |-> key]

Pem(kp, password) ==
  [present |-> TRUE, wellformed |-> TRUE, kp |-> kp, password |-> password]

PemUnset == [present |-> FALSE, wellformed |-> FALSE, kp |-> 0, password |-> None]

PemGarbage == [present |-> TRUE, wellformed |-> FALSE, kp |-> 0, password |-> None]

(* serialization.load_pem_private_key(pem, password) *)
LoadPemPrivateKey(pem, password) ==
  IF ~pem.wellformed THEN [exc |-> "ValueError", kp |-> 0]
  ELSE IF pem.password = None THEN
    (IF password # None THEN [exc |-> "TypeError", kp |-> 0]
     ELSE [exc |-> "none", kp |-> pem.kp])
  ELSE IF password = None THEN [exc |-> "TypeError", kp |-> 0]
  ELSE IF password # pem.password THEN [exc |-> "ValueError", kp |-> 0]
  ELSE [exc |-> "none", kp |-> pem.kp]

(* ---------------------------------------------------------------------- *)
(* AES-GCM (cryptography library): a stream cipher and a 16-byte tag that  *)
(* depends on every byte of the key and the IV and on the ciphertext.      *)
(* ---------------------------------------------------------------------- *)

GCM_TAG_LEN == 16

At(s, i) == s[((i - 1) % Len(s)) + 1]

AesKeyOk(key) == Len(key) \in {16, 24, 32}

GcmIvOk(iv) == Len(iv) >= 8 /\ Len(iv) <= 128

Keystream(key, iv, i) == Xor(At(key, i), (At(iv, i) + 7 * i) % 256)

GcmCrypt(key, iv, data) ==
  [i \in 1..Len(data) |-> Xor(data[i], Keystream(key, iv, i))]

GcmTag(key, iv, ct) ==
  [j \in 1..GCM_TAG_LEN |->
     Xor(Xor(At(key, j), At(iv, j)), (SumSeq(ct) + Len(ct) + 13 * j) % 256)]

(* Cipher(AES(key), GCM(iv)).encryptor(): update + finalize, then .tag *)
GcmEncrypt(key, iv, pt) ==
  IF ~AesKeyOk(key) \/ ~GcmIvOk(iv)
  THEN [exc |-> "ValueError", ct |-> <<>>, tag |-> <<>>]
  ELSE LET ct == GcmCrypt(key, iv, pt)
       IN [exc |-> "none", ct |-> ct, tag |-> GcmTag(key, iv, ct)]

(* Cipher(AES(key), GCM(iv, tag)).decryptor(): update + finalize *)
GcmDecrypt(key, iv, ct, tag) ==
  IF ~AesKeyOk(key) \/ ~GcmIvOk(iv) \/ Len(tag) < GCM_TAG_LEN
  THEN [exc |-> "ValueError", val |-> <<>>]
  ELSE IF tag # GcmTag(key, iv, ct) THEN [exc |-> "InvalidTag", val |-> <<>>]
  ELSE [exc |-> "none", val |-> GcmCrypt(key, iv, ct)]

(* ---------------------------------------------------------------------- *)
(* encryption.py: decrypt_request                                          *)
(* ---------------------------------------------------------------------- *)

TAG_LENGTH == 16

DecryptRaise(exc, status_code) ==
  [exc |-> exc, status_code |-> status_code, decrypted_body |-> JNull,
   aes_key |-> <<>>, initial_vector |-> <<>>]

(* body.get(k) as an argument of b64decode: a str, or a value b64decode    *)
(* rejects with TypeError (None when the key is missing)                   *)
Field(body, k) ==
  LET j == Get(body, k, JNull) IN IF j.t = "str" THEN j.v ELSE None

(* flow_data_buffer[:-TAG_LENGTH] *)
FlowDataBody(buf) == SubSeq(buf, 1, Len(buf) - TAG_LENGTH)

(* the first TAG_LENGTH bytes instead of the last *)
FlowDataTagLeading(buf) ==
  SubSeq(buf, 1, IF Len(buf) > TAG_LENGTH THEN TAG_LENGTH ELSE Len(buf))

(* flow_data_buffer[-TAG_LENGTH:] *)
FlowDataTag(buf) ==
  SubSeq(buf, IF Len(buf) > TAG_LENGTH THEN Len(buf) - TAG_LENGTH + 1 ELSE 1,
         Len(buf))

(* lines 45-60: the try block around the key unwrap *)
UnwrapAesKey(kp, encrypted_aes_key) ==
  LET blob == B64Decode(encrypted_aes_key) IN
  IF blob.exc # "none"
  THEN [exc |-> "FlowEndpointException", status_code |-> 421, val |-> <<>>]
  ELSE LET key == RsaOaepDecrypt(kp, blob.val) IN
    IF key.exc # "none"
    THEN [exc |-> "FlowEndpointException", status_code |-> 421, val |-> <<>>]
    ELSE [exc |-> "none", status_code |-> 0, val |-> key.val]

(* lines 62-84: payload decrypt and deserialisation *)
DecryptFlowData(decrypted_aes_key, encrypted_flow_data, initial_vector) ==
  LET flow_data_buffer == B64Decode(encrypted_flow_data) IN
  IF flow_data_buffer.exc # "none" THEN DecryptRaise(flow_data_buffer.exc, 0)
  ELSE LET initial_vector_buffer == B64Decode(initial_vector) IN
  IF initial_vector_buffer.exc # "none"
  THEN DecryptRaise(initial_vector_buffer.exc, 0)
  ELSE LET encrypted_flow_data_body == FlowDataBody(flow_data_buffer.val)
           encrypted_flow_data_tag == FlowDataTag(flow_data_buffer.val)
           decrypted_data == GcmDecrypt(decrypted_aes_key,
                                        initial_vector_buffer.val,
                                        encrypted_flow_data_body,
                                        encrypted_flow_data_tag)
       IN
  IF decrypted_data.exc # "none" THEN DecryptRaise(decrypted_data.exc, 0)
  ELSE LET decrypted_json_string == Utf8Decode(decrypted_data.val) IN
  IF decrypted_json_string.exc # "none"
  THEN DecryptRaise(decrypted_json_string.exc, 0)
  ELSE LET decrypted_body == Loads(decrypted_json_string.val) IN
  IF decrypted_body.exc # "none" THEN DecryptRaise(decrypted_body.exc, 0)
  ELSE [exc |-> "none", status_code |-> 0,
        decrypted_body |-> decrypted_body.val,
        aes_key |-> decrypted_aes_key,
        initial_vector |-> initial_vector_buffer.val]

DecryptRequest(body, private_pem, passphrase) ==
  IF ~IsObj(body) THEN DecryptRaise("AttributeError", 0)
  ELSE LET encrypted_aes_key == Field(body, T_encrypted_aes_key)
           encrypted_flow_data == Field(body, T_encrypted_flow_data)
           initial_vector == Field(body, T_initial_vector)
           passphrase_bytes == IF passphrase # <<>> THEN passphrase ELSE None
           private_key == LoadPemPrivateKey(private_pem, passphrase_bytes)
       IN
  IF private_key.exc # "none" THEN DecryptRaise(private_key.exc, 0)
  ELSE LET decrypted_aes_key == UnwrapAesKey(private_key.kp, encrypted_aes_key) IN
  IF decrypted_aes_key.exc # "none"
  THEN DecryptRaise(decrypted_aes_key.exc, decrypted_aes_key.status_code)
  ELSE DecryptFlowData(decrypted_aes_key.val, encrypted_flow_data, initial_vector)

(* ---------------------------------------------------------------------- *)
(* encryption.py: encrypt_response                                         *)
(* ---------------------------------------------------------------------- *)

(* the IV left as received *)
FlipIvKeep(initial_vector) == initial_vector

FlipIvFirstByte(initial_vector) ==
  [i \in 1..Len(initial_vector) |->
     IF i = 1 THEN (-(initial_vector[i]) - 1) % 256 ELSE initial_vector[i]]

(* the IV taken as a counter: only its last byte stepped *)
FlipIvIncrement(initial_vector) ==
  [i \in 1..Len(initial_vector) |->
     IF i = Len(initial_vector) THEN (initial_vector[i] + 1) % 256
     ELSE initial_vector[i]]

(* bytes(~b & 0xFF for b in initial_vector) *)
FlipIv(initial_vector) ==
  [i \in 1..Len(initial_vector) |-> (-(initial_vector[i]) - 1) % 256]

(* encrypted_data + encryptor.tag *)
WithTag(encrypted_data, tag) == encrypted_data \o tag

EncryptResponse(response, aes_key, initial_vector) ==
  LET flipped_iv == FlipIv(initial_vector)
      response_json == Dumps(response)
      encryptor == GcmEncrypt(aes_key, flipped_iv, response_json)
  IN IF encryptor.exc # "none" THEN [exc |-> encryptor.exc, val |-> <<>>]
     ELSE [exc |-> "none",
           val |-> B64Encode(WithTag(encryptor.ct, encryptor.tag))]

(* ---------------------------------------------------------------------- *)
(* flow.py: get_next_screen, handle_data_exchange                          *)
(* ---------------------------------------------------------------------- *)

JEq(a, b) == a.t = b.t /\ a.v = b.v

RECURSIVE PyRepr(_)
RECURSIVE PyReprMembers(_)
RECURSIVE PyReprElements(_)
PyReprMembers(pairs) ==
  IF pairs = <<>> THEN <<>>
  ELSE T_SQUOTE \o pairs[1][1] \o T_SQUOTE_COLON \o PyRepr(pairs[1][2])
       \o (IF Len(pairs) > 1 THEN T_COMMA ELSE <<>>)
       \o PyReprMembers(Tail(pairs))

PyReprElements(items) ==
  IF items = <<>> THEN <<>>
  ELSE PyRepr(items[1])
       \o (IF Len(items) > 1 THEN T_COMMA ELSE <<>>)
       \o PyReprElements(Tail(items))

PyRepr(j) ==
  IF j.t = "str" THEN T_SQUOTE \o j.v \o T_SQUOTE
  ELSE IF j.t = "null" THEN T_None
  ELSE IF j.t = "bool" THEN (IF j.v[1] = 1 THEN T_True ELSE T_False)
  ELSE IF j.t = "int" THEN Dumps(j)
  ELSE IF j.t = "arr" THEN T_LBRACKET \o PyReprElements(j.v) \o T_RBRACKET
  ELSE T_LBRACE \o PyReprMembers(j.v) \o T_RBRACE

(* the text an f-string puts in place of {value} *)
Format(j) == IF j.t = "str" THEN j.v ELSE PyRepr(j)

Obj1(k1, v1) == JObj(<< <<k1, v1>> >>)

Obj2(k1, v1, k2, v2) == JObj(<< <<k1, v1>>, <<k2, v2>> >>)

Obj3(k1, v1, k2, v2, k3, v3) ==
  JObj(<< <<k1, v1>>, <<k2, v2>>, <<k3, v3>> >>)

Returns(val) == [exc |-> "none", val |-> val]

Raises(exc) == [exc |-> exc, val |-> JNull]

(* handle_data_exchange without its screen comparison: every screen is    *)
(* handled as WELCOME                                                      *)
HandleDataExchangeIgnoresScreen(screen, data, flow_token, decrypted_body) ==
  IF ~IsObj(data) THEN Raises("AttributeError")
  ELSE Returns(Obj3(T_version, Get(decrypted_body, T_version, JStr(T_3_0)),
                    T_screen, JStr(T_DETAILS),
                    T_data, Obj2(T_user_name, Get(data, T_name, JStr(T_User)),
                                 T_message, JStr(T_please_provide))))

HandleDataExchange(screen, data, flow_token, decrypted_body) ==
  LET version == Get(decrypted_body, T_version, JStr(T_3_0)) IN
  IF JEq(screen, JStr(T_WELCOME)) THEN
    IF ~IsObj(data) THEN Raises("AttributeError")
    ELSE Returns(Obj3(T_version, version,
                      T_screen, JStr(T_DETAILS),
                      T_data, Obj2(T_user_name, Get(data, T_name, JStr(T_User)),
                                   T_message, JStr(T_please_provide))))
  ELSE IF JEq(screen, JStr(T_DETAILS)) THEN
    IF ~IsObj(data) THEN Raises("AttributeError")
    ELSE LET user_details ==
               Obj3(T_name, Get(data, T_name, JNull),
                    T_email, Get(data, T_email, JNull),
                    T_phone, Get(data, T_phone, JNull))
         IN Returns(Obj3(T_version, version,
                         T_screen, JStr(T_SUCCESS),
                         T_data, Obj3(T_success, JBool(TRUE),
                                      T_message, JStr(T_thank_you
                                          \o Format(Get(user_details, T_name, JNull))
                                          \o T_BANG),
                                      T_confirmation_id, flow_token)))
  ELSE IF JEq(screen, JStr(T_SUCCESS)) THEN
    Returns(Obj2(T_version, version,
                 T_data, Obj1(T_extension_message_response,
                              Obj1(T_params,
                                   Obj2(T_flow_token, flow_token,
                                        T_some_param_name, JStr(T_some_param_value))))))
  ELSE
    Returns(Obj2(T_version, version,
                 T_data, Obj1(T_error, JStr(T_unknown_screen \o Format(screen)))))

GetNextScreen(decrypted_body) ==
  LET action == Get(decrypted_body, T_action, JNull)
      screen == Get(decrypted_body, T_screen, JNull)
      data == Get(decrypted_body, T_data, JObj(<<>>))
      flow_token == Get(decrypted_body, T_flow_token, JNull)
      version == Get(decrypted_body, T_version, JStr(T_3_0))
  IN
  IF JEq(action, JStr(T_ping)) THEN
    Returns(Obj2(T_version, version, T_data, Obj1(T_status, JStr(T_active))))
  ELSE IF JEq(action, JStr(T_INIT)) THEN
    Returns(Obj3(T_version, version,
                 T_screen, JStr(T_WELCOME),
                 T_data, Obj2(T_welcome_message, JStr(T_welcome_to),
                              T_flow_token, flow_token)))
  ELSE IF JEq(action, JStr(T_data_exchange)) THEN
    HandleDataExchange(screen, data, flow_token, decrypted_body)
  ELSE
    Returns(Obj2(T_version, version,
                 T_data, Obj1(T_error, JStr(T_unknown_action \o Format(action)))))

(* ---------------------------------------------------------------------- *)
(* The remote platform: builds signed inbound envelopes                    *)
(* ---------------------------------------------------------------------- *)

(* key and IV of test_setup.py *)
KEY_A == T_test_aes_key

IV_A == T_test_iv

KEY_B == [i \in 1..16 |-> (i * 29 + 200) % 256]

IV_B == <<254, 220, 186, 152, 118, 84, 50, 16, 254, 220, 186, 152, 118, 84, 50, 16>>

MSG_PING == Obj1(T_action, JStr(T_ping))

MSG_INIT == Obj2(T_action, JStr(T_INIT), T_flow_token, JStr(T_tok))

(* ciphertext followed by the tag, as the platform sends it *)
PeerSeal(key, iv, pt) ==
  LET ct == GcmCrypt(key, iv, pt) IN ct \o GcmTag(key, iv, ct)

(* the three wire fields, before base64 *)
PeerFields(kp, key, iv, pt) ==
  [key |-> RsaOaepEncrypt(kp, key), data |-> PeerSeal(key, iv, pt), iv |-> iv]

(* the JSON body; a field that is None is left out *)
WireBody(encrypted_aes_key, encrypted_flow_data, initial_vector) ==
  Dumps(JObj(
    (IF encrypted_aes_key = None THEN <<>>
     ELSE << <<T_encrypted_aes_key, JStr(encrypted_aes_key)>> >>)
    \o (IF encrypted_flow_data = None THEN <<>>
        ELSE << <<T_encrypted_flow_data, JStr(encrypted_flow_data)>> >>)
    \o (IF initial_vector = None THEN <<>>
        ELSE << <<T_initial_vector, JStr(initial_vector)>> >>)))

Envelope(f) == WireBody(B64Encode(f.key), B64Encode(f.data), B64Encode(f.iv))

(* s with its i-th byte changed in the lowest bit *)
Corrupt(s, i) == [s EXCEPT ![i] = Xor(s[i], 1)]

Signed(key, raw_body) == SHA256_PREFIX \o HexDigest(HmacSha256(key, raw_body))

(* ---------------------------------------------------------------------- *)
(* server.py: process-wide configuration and the POST "/" handler          *)
(* ---------------------------------------------------------------------- *)

(* req: the requests of the handler; verify, codec: one direct call of the *)
(* verifier / of the codec with its arguments and results                  *)
VARIABLES APP_SECRET, PRIVATE_KEY, PASSPHRASE, req, verify, codec, flow

vars == <<APP_SECRET, PRIVATE_KEY, PASSPHRASE, req, verify, codec, flow>>

NumReqs == 1

Reqs == 1..NumReqs

SECRET_A == T_app_secret

PW_A == T_pw

PW_BAD == T_bad

AppSecrets == {None, <<>>, SECRET_A}

PrivateKeys == {PemUnset, PemGarbage, Pem(1, None), Pem(1, PW_A)}

Passphrases == {<<>>, PW_A, PW_BAD}

GoodFields == PeerFields(1, KEY_A, IV_A, Dumps(MSG_PING))

ENV_PING == Envelope(GoodFields)

ENV_INIT == Envelope(PeerFields(1, KEY_B, IV_B, Dumps(MSG_INIT)))

(* key wrapped for another, unrelated key pair *)
ENV_OTHER_KEY_PAIR == Envelope(PeerFields(2, KEY_A, IV_A, Dumps(MSG_PING)))

(* one byte of the wrapped-key blob changed *)
ENV_KEY_CORRUPT == Envelope([GoodFields EXCEPT !.key = Corrupt(@, 3)])

(* encrypted_aes_key is no base64 text *)
ENV_KEY_UNDECODABLE ==
  WireBody(T_Q, B64Encode(GoodFields.data), B64Encode(GoodFields.iv))

ENV_KEY_MISSING ==
  WireBody(None, B64Encode(GoodFields.data), B64Encode(GoodFields.iv))

(* last byte of ciphertext + tag changed *)
ENV_LAST_BYTE_CORRUPT == Envelope([GoodFields EXCEPT !.data = Corrupt(@, Len(@))])

(* first byte of the ciphertext changed *)
ENV_FIRST_BYTE_CORRUPT == Envelope([GoodFields EXCEPT !.data = Corrupt(@, 1)])

(* ciphertext + tag cut by one byte *)
ENV_TRUNCATED == Envelope([GoodFields EXCEPT !.data = SubSeq(@, 1, Len(@) - 1)])

(* fewer bytes than a tag *)
ENV_SHORT == Envelope([GoodFields EXCEPT !.data = SubSeq(@, 1, 5)])

HandlerBodies ==
  { ENV_PING, ENV_INIT, ENV_OTHER_KEY_PAIR, ENV_KEY_CORRUPT, ENV_KEY_UNDECODABLE,
    ENV_KEY_MISSING, ENV_LAST_BYTE_CORRUPT, ENV_FIRST_BYTE_CORRUPT, ENV_TRUNCATED,
    ENV_SHORT, T_not_json }

(* the x-hub-signature-256 values tried for a body *)
HandlerHeaders(secret, raw_body) ==
  LET key == IF secret = None THEN <<>> ELSE secret IN
  { None, Signed(key, raw_body), Corrupt(Signed(key, raw_body), 8) }

Call(op, aes_key, initial_vector) ==
  [op |-> op, aes_key |-> aes_key, initial_vector |-> initial_vector]

Idle ==
  [pc |-> "idle", raw_body |-> <<>>, signature_header |-> None,
   aes_key |-> <<>>, initial_vector |-> <<>>, decrypted_body |-> JNull,
   calls |-> <<>>, status |-> 0, content |-> <<>>, unhandled |-> FALSE,
   log |-> <<>>]

(* what an f-string of a logging call interpolates: a value read from the  *)
(* decrypted body, or the text of a caught exception                       *)
FromPlaintext(j) == [kind |-> "plaintext", value |-> j]

ExceptionText(exc) == [kind |-> "exception", value |-> JStr(<<>>), exc |-> exc]

(* logger.<level>(...) at a line of a file, with the interpolated values *)
LogEntry(level, file, line, args) ==
  [level |-> level, file |-> file, line |-> line, args |-> args]

Logged(q, entries) == [q EXCEPT !.log = @ \o entries]

(* server.py line 19: basicConfig(level=logging.INFO) drops DEBUG records *)
Emitted(entry) == entry.level # "DEBUG"

(* encryption.py line 56: what decrypt_request logs *)
DecryptRequestLog(body, private_pem, passphrase) ==
  IF ~IsObj(body) THEN <<>>
  ELSE IF LoadPemPrivateKey(private_pem,
                            IF passphrase # <<>> THEN passphrase ELSE None).exc # "none"
  THEN <<>>
  ELSE IF B64Decode(Field(body, T_encrypted_aes_key)).exc # "none"
  THEN <<LogEntry("ERROR", "encryption.py", 56,
                  <<ExceptionText(B64Decode(Field(body, T_encrypted_aes_key)).exc)>>)>>
  ELSE IF RsaOaepDecrypt(private_pem.kp,
                         B64Decode(Field(body, T_encrypted_aes_key)).val).exc # "none"
  THEN <<LogEntry("ERROR", "encryption.py", 56,
                  <<ExceptionText(RsaOaepDecrypt(private_pem.kp,
                       B64Decode(Field(body, T_encrypted_aes_key)).val).exc)>>)>>
  ELSE <<>>

(* flow.py lines 29, 58, 108, 137: what get_next_screen logs *)
GetNextScreenLog(decrypted_body) ==
  LET action == Get(decrypted_body, T_action, JNull)
      screen == Get(decrypted_body, T_screen, JNull)
      data == Get(decrypted_body, T_data, JObj(<<>>))
      flow_token == Get(decrypted_body, T_flow_token, JNull)
  IN
  <<LogEntry("INFO", "flow.py", 29, <<FromPlaintext(action), FromPlaintext(screen)>>)>>
  \o (IF JEq(action, JStr(T_ping)) \/ JEq(action, JStr(T_INIT)) THEN <<>>
      ELSE IF ~JEq(action, JStr(T_data_exchange))
      THEN <<LogEntry("WARNING", "flow.py", 58, <<FromPlaintext(action)>>)>>
      ELSE IF JEq(screen, JStr(T_WELCOME)) \/ JEq(screen, JStr(T_SUCCESS)) THEN <<>>
      ELSE IF JEq(screen, JStr(T_DETAILS))
      THEN (IF IsObj(data)
            THEN <<LogEntry("INFO", "flow.py", 108, <<FromPlaintext(flow_token)>>)>>
            ELSE <<>>)
      ELSE <<LogEntry("WARNING", "flow.py", 137, <<FromPlaintext(screen)>>)>>)

(* Response(status_code=...) or Response(content=...) returned by the handler *)
Respond(q, status, content) ==
  [q EXCEPT !.pc = "done", !.status = status, !.content = content]

(* an exception that leaves the handler: the framework answers 500 *)
Escape(q) ==
  [q EXCEPT !.pc = "done", !.status = 500, !.unhandled = TRUE]

(* flow: one conversation of a client with get_next_screen *)
NoFlow ==
  [pc |-> "off", request |-> JNull, response |-> Returns(JNull),
   starts_with_init |-> FALSE, mappings_only |-> TRUE,
   screens |-> <<>>, exchanges |-> 0]

NoVerify ==
  [pc |-> "off", raw_body |-> <<>>, signature_header |-> None,
   result |-> [exc |-> "none", ret |-> FALSE]]

NoCodec ==
  [pc |-> "off", aes_key |-> <<>>, initial_vector |-> <<>>, message |-> JNull,
   body |-> JNull, decrypted |-> DecryptRaise("none", 0),
   enc_args |-> [aes_key |-> <<>>, initial_vector |-> <<>>],
   flipped_iv |-> <<>>,
   encrypted |-> [exc |-> "none", val |-> <<>>],
   opened |-> [exc |-> "none", val |-> <<>>],
   opened_same_iv |-> [exc |-> "none", val |-> <<>>]]

Init ==
  /\ APP_SECRET \in AppSecrets
  /\ PRIVATE_KEY \in PrivateKeys
  /\ PASSPHRASE \in Passphrases
  /\ req = [r \in Reqs |-> Idle]
  /\ flow = NoFlow
  /\ verify = NoVerify
  /\ codec = NoCodec

(* what a POST carries: <<raw body, x-hub-signature-256 header>> *)
HandlerPosts ==
  UNION { { <<raw_body, signature_header>> :
              signature_header \in HandlerHeaders(APP_SECRET, raw_body) } :
          raw_body \in HandlerBodies }

T_detail == S("detail")

(* the detail text of line 67, with its quoted variable name *)
T_private_key_empty ==
  S("Private key is empty. Please check your env variable ")
  \o <<QUOTE>> \o S("PRIVATE_KEY") \o <<QUOTE>> \o S(".")

(* the body the framework sends for HTTPException(detail=...): compact JSON *)
HttpExceptionBody(detail) ==
  <<123>> \o DumpsString(T_detail) \o <<58>> \o DumpsString(detail) \o <<125>>

(* the handler without its PRIVATE_KEY guard: it goes on to read the body *)
ReceiveFromUnguarded(r, posts) ==
  /\ req[r].pc = "idle"
  /\ \E post \in posts :
       req' = [req EXCEPT ![r] = [@ EXCEPT !.raw_body = post[1],
                                           !.signature_header = post[2],
                                           !.pc = "await_body"]]
  /\ UNCHANGED <<APP_SECRET, PRIVATE_KEY, PASSPHRASE, verify, codec, flow>>

(* lines 61-71: one of the given POSTs arrives; up to "await request.body()" *)
ReceiveFrom(r, posts) ==
  /\ req[r].pc = "idle"
  /\ \E post \in posts :
       LET q == [req[r] EXCEPT !.raw_body = post[1],
                               !.signature_header = post[2]]
       IN req' = [req EXCEPT ![r] =
                    IF ~PRIVATE_KEY.present
                    THEN Respond(q, 500, HttpExceptionBody(T_private_key_empty))
                    ELSE [q EXCEPT !.pc = "await_body"]]
  /\ UNCHANGED <<APP_SECRET, PRIVATE_KEY, PASSPHRASE, verify, codec, flow>>

Receive(r) == ReceiveFrom(r, HandlerPosts)

(* lines 71-79: signature check; up to "await request.json()" *)
AfterBodyNoReject(r) ==
  /\ req[r].pc = "await_body"
  /\ LET q == [req[r] EXCEPT !.calls = Append(@, Call("is_request_signature_valid", <<>>, <<>>))]
         valid == IsRequestSignatureValid(APP_SECRET, q.signature_header, q.raw_body)
     IN req' = [req EXCEPT ![r] =
                  IF valid.exc # "none" THEN Escape(q)
                  ELSE [q EXCEPT !.pc = "await_json"]]
  /\ UNCHANGED <<APP_SECRET, PRIVATE_KEY, PASSPHRASE, verify, codec, flow>>

AfterBody(r) ==
  /\ req[r].pc = "await_body"
  /\ LET q == [req[r] EXCEPT !.calls = Append(@, Call("is_request_signature_valid", <<>>, <<>>))]
         valid == IsRequestSignatureValid(APP_SECRET, q.signature_header, q.raw_body)
     IN req' = [req EXCEPT ![r] =
                  IF valid.exc # "none" THEN Escape(q)
                  ELSE IF ~valid.ret THEN Respond(q, 432, <<>>)
                  ELSE [q EXCEPT !.pc = "await_json"]]
  /\ UNCHANGED <<APP_SECRET, PRIVATE_KEY, PASSPHRASE, verify, codec, flow>>

(* request.json(): json.loads of the raw body *)
RequestJson(raw_body) ==
  LET text == Utf8Decode(raw_body) IN
  IF text.exc # "none" THEN Raises(text.exc) ELSE Loads(text.val)

(* lines 84-89: the status of a failed decrypt_request *)
DecryptFailureStatusAlways421(decrypted_request) == 421

DecryptFailureStatus(decrypted_request) ==
  IF decrypted_request.exc = "FlowEndpointException"
  THEN decrypted_request.status_code
  ELSE 500

(* only FlowEndpointException is caught; any other exception of           *)
(* decrypt_request leaves the handler                                      *)
AfterDecryptNoGenericExcept(q, decrypted_request) ==
  IF decrypted_request.exc = "FlowEndpointException"
  THEN Respond(q, decrypted_request.status_code, <<>>)
  ELSE IF decrypted_request.exc # "none" THEN Escape(q)
  ELSE IF ~IsObj(decrypted_request.decrypted_body)
  THEN Escape([q EXCEPT !.aes_key = decrypted_request.aes_key,
                        !.initial_vector = decrypted_request.initial_vector,
                        !.decrypted_body = decrypted_request.decrypted_body])
  ELSE [q EXCEPT !.pc = "await_screen",
                 !.aes_key = decrypted_request.aes_key,
                 !.initial_vector = decrypted_request.initial_vector,
                 !.decrypted_body = decrypted_request.decrypted_body]

(* the failure of decrypt_request is not returned: the handler goes on *)
AfterDecryptProceeds(q, decrypted_request) ==
  [q EXCEPT !.pc = "await_screen",
            !.aes_key = decrypted_request.aes_key,
            !.initial_vector = decrypted_request.initial_vector,
            !.decrypted_body = IF decrypted_request.exc # "none" THEN JObj(<<>>)
                               ELSE decrypted_request.decrypted_body]

(* lines 82-96: the outcome of decrypt_request, its log lines, and the     *)
(* reads of its result                                                     *)
AfterDecrypt(q, decrypted_request) ==
  IF decrypted_request.exc = "FlowEndpointException"
  THEN Respond(Logged(q, <<LogEntry("ERROR", "server.py", 85,
                                    <<ExceptionText(decrypted_request.exc)>>)>>),
               DecryptFailureStatus(decrypted_request), <<>>)
  ELSE IF decrypted_request.exc # "none"
  THEN Respond(Logged(q, <<LogEntry("ERROR", "server.py", 88,
                                    <<ExceptionText(decrypted_request.exc)>>)>>),
               DecryptFailureStatus(decrypted_request), <<>>)
  ELSE IF ~IsObj(decrypted_request.decrypted_body)
  THEN Escape([q EXCEPT !.aes_key = decrypted_request.aes_key,
                        !.initial_vector = decrypted_request.initial_vector,
                        !.decrypted_body = decrypted_request.decrypted_body])
  ELSE [q EXCEPT !.pc = "await_screen",
                 !.aes_key = decrypted_request.aes_key,
                 !.initial_vector = decrypted_request.initial_vector,
                 !.decrypted_body = decrypted_request.decrypted_body,
                 !.log = @ \o <<LogEntry("INFO", "server.py", 95,
                                   <<FromPlaintext(Get(decrypted_request.decrypted_body,
                                                       T_action, JNull)),
                                     FromPlaintext(Get(decrypted_request.decrypted_body,
                                                       T_screen, JNull))>>),
                                 LogEntry("DEBUG", "server.py", 96,
                                   <<FromPlaintext(decrypted_request.decrypted_body)>>)>>]

(* lines 82-83: the call of decrypt_request, recorded with what it recovered *)
Decrypt(q, decrypted_request) ==
  AfterDecrypt([q EXCEPT !.calls = Append(@, Call("decrypt_request",
                                                  decrypted_request.aes_key,
                                                  decrypted_request.initial_vector))],
               decrypted_request)

(* line 79: the parsed body, or the parse error leaving the handler *)
AfterParse(q, body) ==
  IF body.exc # "none" THEN Escape(q)
  ELSE Decrypt(Logged(q, DecryptRequestLog(body.val, PRIVATE_KEY, PASSPHRASE)),
               DecryptRequest(body.val, PRIVATE_KEY, PASSPHRASE))

(* a failed decrypt_request clears the configured passphrase *)
AfterJsonForgetsPassphrase(r) ==
  /\ req[r].pc = "await_json"
  /\ req' = [req EXCEPT ![r] = AfterParse(req[r], RequestJson(req[r].raw_body))]
  /\ PASSPHRASE' = IF req'[r].status \in {421, 500} THEN <<>> ELSE PASSPHRASE
  /\ UNCHANGED <<APP_SECRET, PRIVATE_KEY, verify, codec, flow>>

(* lines 79-105: parse, decrypt; up to "await get_next_screen(...)" *)
AfterJson(r) ==
  /\ req[r].pc = "await_json"
  /\ req' = [req EXCEPT ![r] = AfterParse(req[r], RequestJson(req[r].raw_body))]
  /\ UNCHANGED <<APP_SECRET, PRIVATE_KEY, PASSPHRASE, verify, codec, flow>>

(* the key and IV kept in one place for all requests: those of the        *)
(* lowest-numbered request that has decrypted                              *)
AfterScreenSharedKey(r) ==
  /\ req[r].pc = "await_screen"
  /\ LET screen_response == GetNextScreen(req[r].decrypted_body)
         holder == CHOOSE o \in DOMAIN req :
                     /\ req[o].aes_key # <<>>
                     /\ \A p \in DOMAIN req : req[p].aes_key # <<>> => o <= p
         q == [req[r] EXCEPT !.calls = Append(@, Call("get_next_screen", <<>>, <<>>)),
                             !.aes_key = req[holder].aes_key,
                             !.initial_vector = req[holder].initial_vector]
     IN IF screen_response.exc # "none" THEN req' = [req EXCEPT ![r] = Escape(q)]
        ELSE
          LET encrypted_response ==
                EncryptResponse(screen_response.val, q.aes_key, q.initial_vector)
              q2 == [q EXCEPT !.calls = Append(@, Call("encrypt_response",
                                                       q.aes_key, q.initial_vector))]
          IN req' = [req EXCEPT ![r] =
               IF encrypted_response.exc # "none" THEN Escape(q2)
               ELSE Respond(q2, 200, encrypted_response.val)]
  /\ UNCHANGED <<APP_SECRET, PRIVATE_KEY, PASSPHRASE, verify, codec, flow>>

(* lines 105-111: screen logic, encrypt, respond *)
AfterScreen(r) ==
  /\ req[r].pc = "await_screen"
  /\ LET screen_response == GetNextScreen(req[r].decrypted_body)
         q == [req[r] EXCEPT !.calls = Append(@, Call("get_next_screen", <<>>, <<>>)),
                             !.log = @ \o GetNextScreenLog(req[r].decrypted_body)]
     IN IF screen_response.exc # "none" THEN req' = [req EXCEPT ![r] = Escape(q)]
        ELSE
          LET encrypted_response ==
                EncryptResponse(screen_response.val, q.aes_key, q.initial_vector)
              q2 == [q EXCEPT !.calls = Append(@, Call("encrypt_response",
                                                       q.aes_key, q.initial_vector)),
                              !.log = @ \o
                                <<LogEntry("INFO", "server.py", 106,
                                    <<FromPlaintext(Get(req[r].decrypted_body,
                                                        T_action, JNull))>>),
                                  LogEntry("DEBUG", "server.py", 107,
                                    <<FromPlaintext(screen_response.val)>>)>>]
          IN req' = [req EXCEPT ![r] =
               IF encrypted_response.exc # "none" THEN Escape(q2)
               ELSE Respond(q2, 200, encrypted_response.val)]
  /\ UNCHANGED <<APP_SECRET, PRIVATE_KEY, PASSPHRASE, verify, codec, flow>>

Next ==
  \E r \in Reqs : Receive(r) \/ AfterBody(r) \/ AfterJson(r) \/ AfterScreen(r)

Spec == Init /\ [][Next]_vars

(* ---------------------------------------------------------------------- *)
(* Properties of the handler                                               *)
(* ---------------------------------------------------------------------- *)

Called(q, op) == \E i \in 1..Len(q.calls) : q.calls[i].op = op

LastCall(q) == q.calls[Len(q.calls)].op

SignatureCheck(q) ==
  IsRequestSignatureValid(APP_SECRET, q.signature_header, q.raw_body)

(* C1: a request whose signature check returned False is answered 432 and  *)
(* the check is the only step taken for it: no decrypt_request,            *)
(* get_next_screen or encrypt_response.                                    *)
C1_InvalidSignatureNeverDecrypted ==
  \A r \in Reqs :
    LET q == req[r] IN
    (/\ Called(q, "is_request_signature_valid")
     /\ SignatureCheck(q).exc = "none"
     /\ ~SignatureCheck(q).ret)
    => /\ q.pc = "done"
       /\ q.status = 432
       /\ q.content = <<>>
       /\ q.calls = <<Call("is_request_signature_valid", <<>>, <<>>)>>

C1_Witness ==
  \E r \in Reqs :
    /\ req[r].pc = "done"
    /\ req[r].status = 432
    /\ ~Falsy(APP_SECRET)
    /\ req[r].raw_body = ENV_PING
    /\ req[r].signature_header = Corrupt(Signed(APP_SECRET, ENV_PING), 8)

(* the parts of the envelope of a request that reached decrypt_request *)
Wire(q) == RequestJson(q.raw_body).val

PassphraseBytes == IF PASSPHRASE # <<>> THEN PASSPHRASE ELSE None

(* an encrypted private key and a passphrase that is not its passphrase *)
PassphraseMismatch ==
  /\ PRIVATE_KEY.wellformed
  /\ PRIVATE_KEY.password # None
  /\ PASSPHRASE # <<>>
  /\ PASSPHRASE # PRIVATE_KEY.password

PrivateKeyLoads ==
  LoadPemPrivateKey(PRIVATE_KEY, PassphraseBytes).exc = "none"

WrappedKey(q) == B64Decode(Field(Wire(q), T_encrypted_aes_key))

Unwrapped(q) == RsaOaepDecrypt(PRIVATE_KEY.kp, WrappedKey(q).val)

(* wrong key pair, corrupted or undecodable blob, passphrase mismatch *)
KeyUnwrapFailure(q) ==
  \/ PassphraseMismatch
  \/ PrivateKeyLoads /\ WrappedKey(q).exc # "none"
  \/ PrivateKeyLoads /\ WrappedKey(q).exc = "none" /\ Unwrapped(q).exc # "none"

KeyUnwrapSuccess(q) ==
  /\ PrivateKeyLoads
  /\ WrappedKey(q).exc = "none"
  /\ Unwrapped(q).exc = "none"

(* C6: every failure of the key-unwrap step (key wrapped for another key   *)
(* pair, corrupted or undecodable blob, passphrase mismatch) is reported   *)
(* as status 421, never 500, and no plaintext is returned.                 *)
C6_KeyUnwrapFailureIs421 ==
  \A r \in Reqs :
    LET q == req[r] IN
    (Called(q, "decrypt_request") /\ KeyUnwrapFailure(q))
    => /\ q.pc = "done"
       /\ q.status = 421
       /\ q.decrypted_body = JNull
       /\ q.content = <<>>

FlowData(q) == B64Decode(Field(Wire(q), T_encrypted_flow_data))

FlowIv(q) == B64Decode(Field(Wire(q), T_initial_vector))

(* the final 16 bytes do not authenticate the bytes before them *)
Unauthentic(q) ==
  /\ FlowData(q).exc = "none"
  /\ FlowIv(q).exc = "none"
  /\ Len(FlowData(q).val) >= GCM_TAG_LEN
  /\ Len(FlowIv(q).val) > 0
  /\ Len(Unwrapped(q).val) > 0
  /\ SubSeq(FlowData(q).val, Len(FlowData(q).val) - GCM_TAG_LEN + 1, Len(FlowData(q).val))
       # GcmTag(Unwrapped(q).val, FlowIv(q).val,
                SubSeq(FlowData(q).val, 1, Len(FlowData(q).val) - GCM_TAG_LEN))

(* C7: when the key unwrap succeeds and the final 16 bytes of the payload  *)
(* do not authenticate the rest, decrypt_request returns no plaintext and  *)
(* the handler answers 500 (not 421) without going on to the screen logic. *)
C7_TagFailureIs500 ==
  \A r \in Reqs :
    LET q == req[r] IN
    (Called(q, "decrypt_request") /\ KeyUnwrapSuccess(q) /\ Unauthentic(q))
    => /\ q.pc = "done"
       /\ q.status = 500
       /\ ~q.unhandled
       /\ q.decrypted_body = JNull
       /\ q.content = <<>>
       /\ LastCall(q) = "decrypt_request"

C7_Witness ==
  \E r \in Reqs :
    /\ req[r].raw_body \in {ENV_LAST_BYTE_CORRUPT, ENV_TRUNCATED, ENV_FIRST_BYTE_CORRUPT}
    /\ Called(req[r], "decrypt_request")
    /\ KeyUnwrapSuccess(req[r])
    /\ Unauthentic(req[r])
    /\ req[r].status = 500

(* the three error kinds, at the step that meets them *)
SignatureFailure(q) ==
  /\ Called(q, "is_request_signature_valid")
  /\ SignatureCheck(q).exc = "none"
  /\ ~SignatureCheck(q).ret

DecryptFailure(q) ==
  /\ Called(q, "decrypt_request")
  /\ DecryptRequest(Wire(q), PRIVATE_KEY, PASSPHRASE).exc # "none"

Ops(q) == [i \in 1..Len(q.calls) |-> q.calls[i].op]

(* C14: a request that met a signature failure, a key-unwrap failure or a  *)
(* payload-decrypt failure is finished in that very step with the failure  *)
(* status and an empty body; it has made one signature check, at most one  *)
(* decrypt_request, no get_next_screen and no encrypt_response; and a      *)
(* finished request never changes again, so it has exactly one response.   *)
C14_ErrorsAreTerminal ==
  /\ [](\A r \in DOMAIN req :
          /\ SignatureFailure(req[r])
               => /\ req[r].pc = "done"
                  /\ req[r].status = 432
                  /\ req[r].content = <<>>
                  /\ Ops(req[r]) = <<"is_request_signature_valid">>
          /\ DecryptFailure(req[r])
               => /\ req[r].pc = "done"
                  /\ req[r].status \in {421, 500}
                  /\ req[r].content = <<>>
                  /\ Ops(req[r]) = <<"is_request_signature_valid", "decrypt_request">>)
  /\ [][\A r \in DOMAIN req : req[r].pc = "done" => req'[r] = req[r]]_vars

(* a request stopped at the key unwrap, still as it was answered after     *)
(* another request ran to its reply                                        *)
C14_Witness ==
  \E r \in DOMAIN req, o \in DOMAIN req :
    /\ DecryptFailure(req[r])
    /\ KeyUnwrapFailure(req[r])
    /\ req[r].raw_body = ENV_KEY_CORRUPT
    /\ req[r].pc = "done"
    /\ req[r].status = 421
    /\ req[o].pc = "done"
    /\ req[o].status = 200

(* ---------------------------------------------------------------------- *)
(* The verifier called on its own: one call of is_request_signature_valid  *)
(* ---------------------------------------------------------------------- *)

SECRET_B == T_other_secret

VerifierSecrets == {None, <<>>, SECRET_A, SECRET_B}

VerifierBodies == {<<>>, T_not_json, ENV_PING}

SigningKeys == {<<>>, SECRET_A, SECRET_B}

FlipPositions == {1, 32, SHA256_HEX_LEN}

(* the digests that differ from the digest under key in one bit, as hex *)
FlippedDigests(key, raw_body) ==
  { HexDigest([HmacSha256(key, raw_body) EXCEPT ![i] = Xor(@, mask)]) :
      i \in FlipPositions, mask \in {1, 2, 4, 8} }

(* "sha256=" in the middle of s *)
Infix(s, n) == SubSeq(s, 1, n) \o SHA256_PREFIX \o Drop(s, n)

NON_ASCII == 233

HeadersFor(key, raw_body) ==
  LET d == HexDigest(HmacSha256(key, raw_body)) IN
  { d, SHA256_PREFIX \o d, SHA256_PREFIX \o SHA256_PREFIX \o d,
    Infix(d, 10), d \o SHA256_PREFIX, SubSeq(d, 1, Len(d) - 1),
    [d EXCEPT ![1] = NON_ASCII], SHA256_PREFIX \o [d EXCEPT ![Len(d)] = NON_ASCII] }
  \cup FlippedDigests(key, raw_body)
  \cup { SHA256_PREFIX \o f : f \in FlippedDigests(key, raw_body) }

VerifierHeaders(raw_body) ==
  { None, <<>>, SHA256_PREFIX, T_Q, <<NON_ASCII>> }
  \cup UNION { HeadersFor(key, raw_body) : key \in SigningKeys }

InitVerifier ==
  /\ APP_SECRET \in VerifierSecrets
  /\ PRIVATE_KEY = PemUnset
  /\ PASSPHRASE = <<>>
  /\ req = [r \in Reqs |-> Idle]
  /\ flow = NoFlow
  /\ codec = NoCodec
  /\ \E raw_body \in VerifierBodies :
       \E signature_header \in VerifierHeaders(raw_body) :
         verify = [pc |-> "ready", raw_body |-> raw_body,
                   signature_header |-> signature_header,
                   result |-> [exc |-> "none", ret |-> FALSE]]

VerifierCall ==
  /\ verify.pc = "ready"
  /\ verify' = [verify EXCEPT
                  !.pc = "returned",
                  !.result = IsRequestSignatureValid(APP_SECRET,
                                                     verify.signature_header,
                                                     verify.raw_body)]
  /\ UNCHANGED <<APP_SECRET, PRIVATE_KEY, PASSPHRASE, req, codec, flow>>

NextVerifier == VerifierCall

SpecVerifier == InitVerifier /\ [][NextVerifier]_vars

Expected == HexDigest(HmacSha256(APP_SECRET, verify.raw_body))

(* the header without one leading "sha256=" *)
Bare(h) == IF StartsWith(h, SHA256_PREFIX) THEN Drop(h, Len(SHA256_PREFIX)) ELSE h

ReturnedFalse == verify.result = [exc |-> "none", ret |-> FALSE]

ReturnedTrue == verify.result = [exc |-> "none", ret |-> TRUE]

(* C2: with APP_SECRET unset or empty the verifier returns False, without  *)
(* raising, for every body and header, also for the HMAC under an empty    *)
(* key.                                                                    *)
C2_FailClosed ==
  (verify.pc = "returned" /\ Falsy(APP_SECRET)) => ReturnedFalse

C2_Witness ==
  /\ verify.pc = "returned"
  /\ APP_SECRET = <<>>
  /\ verify.raw_body = ENV_PING
  /\ verify.signature_header = Signed(<<>>, ENV_PING)
  /\ ReturnedFalse

(* C3: with a secret, the hex HMAC-SHA256 of the raw body is accepted with *)
(* and without "sha256="; a digest one bit away from it and the digest     *)
(* under another secret are rejected.                                      *)
C3_AcceptsExactlyTheDigest ==
  (verify.pc = "returned" /\ ~Falsy(APP_SECRET) /\ verify.signature_header # None)
  => /\ verify.signature_header \in {Expected, SHA256_PREFIX \o Expected}
          => ReturnedTrue
     /\ Bare(verify.signature_header) \in FlippedDigests(APP_SECRET, verify.raw_body)
          => ReturnedFalse
     /\ \A key \in SigningKeys \ {APP_SECRET} :
          Bare(verify.signature_header) = HexDigest(HmacSha256(key, verify.raw_body))
          => ReturnedFalse

C3_Witness ==
  /\ verify.pc = "returned"
  /\ APP_SECRET = SECRET_A
  /\ verify.raw_body = ENV_PING
  /\ verify.signature_header = SHA256_PREFIX \o Expected
  /\ ReturnedTrue

(* C4: "sha256=" is stripped only as a prefix: a header is accepted        *)
(* exactly when it is the expected digest or "sha256=" followed by it.     *)
C4_PrefixOnly ==
  (verify.pc = "returned" /\ ~Falsy(APP_SECRET) /\ verify.signature_header # None)
  => (verify.result.ret
       <=> verify.signature_header \in {Expected, SHA256_PREFIX \o Expected})

(* C5: the verifier is total: it returns a boolean and never raises, and   *)
(* returns False on a missing secret, a missing header and a mismatch.     *)
C5_Total ==
  verify.pc = "returned"
  => /\ verify.result.exc = "none"
     /\ (Falsy(APP_SECRET) \/ Falsy(verify.signature_header)
          \/ Remove(verify.signature_header, SHA256_PREFIX) # Expected)
         => ~verify.result.ret

(* ---------------------------------------------------------------------- *)
(* The codec called on its own: the platform seals a message, the codec    *)
(* decrypts it, encrypts a reply, and the platform opens the reply;        *)
(* encrypt_response is also called directly, as test_setup.py does.        *)
(* ---------------------------------------------------------------------- *)

KEY_ZERO == [i \in 1..16 |-> 0]

KEY_24 == [i \in 1..24 |-> (i * 7) % 256]

IV_ZERO == [i \in 1..16 |-> 0]

IV_ONES == [i \in 1..16 |-> 255]

IV_12 == [i \in 1..12 |-> (i * 21) % 256]

IV_1 == <<127>>

(* the reply of the spec's end-to-end scenario, with more value types *)
MSG_STATUS ==
  Obj2(T_version, JStr(T_3_0),
       T_data, Obj3(T_status, JStr(T_active), T_success, JBool(TRUE),
                    T_params, JArr(<<JNull, JInt(-12), JBool(FALSE)>>)))

MSG_QUOTED == Obj1(T_message, JStr(<<65, QUOTE, BACKSLASH, 66>>))

CodecKeys == {KEY_A, KEY_B, KEY_ZERO, KEY_24}

CodecIvs == {IV_A, IV_B, IV_ZERO, IV_ONES, IV_12, IV_1, <<>>}

CodecMessages == {MSG_PING, MSG_INIT, JObj(<<>>), MSG_STATUS, MSG_QUOTED}

InitCodec ==
  /\ APP_SECRET = None
  /\ \E password \in {None, PW_A} :
       /\ PRIVATE_KEY = Pem(1, password)
       /\ PASSPHRASE = IF password = None THEN <<>> ELSE password
  /\ req = [r \in Reqs |-> Idle]
  /\ flow = NoFlow
  /\ verify = NoVerify
  /\ \E aes_key \in CodecKeys, initial_vector \in CodecIvs, message \in CodecMessages :
       codec = [NoCodec EXCEPT !.pc = "ready", !.aes_key = aes_key,
                               !.initial_vector = initial_vector,
                               !.message = message]

(* the platform wraps the key for the server's key pair, seals the JSON of *)
(* the message and sends the three fields base64-encoded                   *)
PeerSend ==
  /\ codec.pc = "ready"
  /\ AesKeyOk(codec.aes_key)
  /\ GcmIvOk(codec.initial_vector)
  /\ codec' = [codec EXCEPT
                 !.pc = "sent",
                 !.body = RequestJson(Envelope(PeerFields(PRIVATE_KEY.kp,
                                                          codec.aes_key,
                                                          codec.initial_vector,
                                                          Dumps(codec.message)))).val]
  /\ UNCHANGED <<APP_SECRET, PRIVATE_KEY, PASSPHRASE, req, verify, flow>>

CodecDecrypt ==
  /\ codec.pc = "sent"
  /\ codec' = [codec EXCEPT
                 !.pc = "decrypted",
                 !.decrypted = DecryptRequest(codec.body, PRIVATE_KEY, PASSPHRASE)]
  /\ UNCHANGED <<APP_SECRET, PRIVATE_KEY, PASSPHRASE, req, verify, flow>>

(* encrypt_response(message, key, iv): with the key and IV that            *)
(* decrypt_request returned, or with the given ones when called directly   *)
CodecEncrypt ==
  /\ \/ codec.pc = "ready"
     \/ codec.pc = "decrypted" /\ codec.decrypted.exc = "none"
  /\ LET args == IF codec.pc = "ready"
                 THEN [aes_key |-> codec.aes_key,
                       initial_vector |-> codec.initial_vector]
                 ELSE [aes_key |-> codec.decrypted.aes_key,
                       initial_vector |-> codec.decrypted.initial_vector]
     IN codec' = [codec EXCEPT
                    !.pc = "encrypted",
                    !.enc_args = args,
                    !.flipped_iv = FlipIv(args.initial_vector),
                    !.encrypted = EncryptResponse(codec.message, args.aes_key,
                                                  args.initial_vector)]
  /\ UNCHANGED <<APP_SECRET, PRIVATE_KEY, PASSPHRASE, req, verify, flow>>

(* the platform's view of the IV of the reply *)
Complement(iv) == [i \in 1..Len(iv) |-> Xor(iv[i], 255)]

(* the platform decodes the reply, takes the last 16 bytes as the tag and  *)
(* GCM-decrypts with the complemented IV (and, for comparison, with the    *)
(* IV as sent)                                                             *)
PeerOpen ==
  /\ codec.pc = "encrypted"
  /\ codec.encrypted.exc = "none"
  /\ LET blob == B64Decode(codec.encrypted.val).val
         ct == SubSeq(blob, 1, Len(blob) - GCM_TAG_LEN)
         tag == SubSeq(blob, Len(blob) - GCM_TAG_LEN + 1, Len(blob))
     IN codec' = [codec EXCEPT
                    !.pc = "opened",
                    !.opened = GcmDecrypt(codec.enc_args.aes_key,
                                          Complement(codec.enc_args.initial_vector),
                                          ct, tag),
                    !.opened_same_iv = GcmDecrypt(codec.enc_args.aes_key,
                                                  codec.enc_args.initial_vector,
                                                  ct, tag)]
  /\ UNCHANGED <<APP_SECRET, PRIVATE_KEY, PASSPHRASE, req, verify, flow>>

NextCodec == PeerSend \/ CodecDecrypt \/ CodecEncrypt \/ PeerOpen

SpecCodec == InitCodec /\ [][NextCodec]_vars

(* C8: an envelope built from a 16-byte key k, a 16-byte IV iv and a       *)
(* mapping m makes decrypt_request return decrypted_body = m, aes_key = k  *)
(* and initial_vector = iv.                                                *)
C8_DecryptRoundTrip ==
  (/\ codec.pc = "decrypted"
   /\ Len(codec.aes_key) = 16
   /\ Len(codec.initial_vector) = 16)
  => /\ codec.decrypted.exc = "none"
     /\ codec.decrypted.decrypted_body = codec.message
     /\ codec.decrypted.aes_key = codec.aes_key
     /\ codec.decrypted.initial_vector = codec.initial_vector

C8_Witness ==
  /\ codec.pc = "decrypted"
  /\ codec.aes_key = KEY_B
  /\ codec.initial_vector = IV_B
  /\ codec.message = MSG_STATUS
  /\ codec.decrypted.decrypted_body = MSG_STATUS
  /\ codec.decrypted.aes_key = KEY_B

(* the message the platform reads from the opened reply *)
OpenedMessage(opened) ==
  IF opened.exc # "none" THEN Raises(opened.exc)
  ELSE RequestJson(opened.val)

(* C9: for a 16-byte key and IV, encrypt_response succeeds and returns     *)
(* base64 text of ciphertext followed by a 16-byte tag; GCM-decrypting     *)
(* with the key, the complemented IV and that tag recovers the message,    *)
(* and decrypting with the IV itself does not.                             *)
C9_EncryptRoundTrip ==
  (/\ codec.pc \in {"encrypted", "opened"}
   /\ Len(codec.enc_args.aes_key) = 16
   /\ Len(codec.enc_args.initial_vector) = 16)
  => /\ codec.encrypted.exc = "none"
     /\ \A i \in 1..Len(codec.encrypted.val) :
          B64Value(codec.encrypted.val[i]) < 64 \/ codec.encrypted.val[i] = B64_PAD
     /\ B64Decode(codec.encrypted.val).exc = "none"
     /\ Len(B64Decode(codec.encrypted.val).val)
          = Len(Dumps(codec.message)) + GCM_TAG_LEN
     /\ codec.pc = "opened"
          => /\ OpenedMessage(codec.opened) = Returns(codec.message)
             /\ OpenedMessage(codec.opened_same_iv).exc # "none"

C9_Witness ==
  /\ codec.pc = "opened"
  /\ codec.enc_args.aes_key = KEY_A
  /\ codec.enc_args.initial_vector = IV_A
  /\ codec.message = MSG_STATUS
  /\ OpenedMessage(codec.opened) = Returns(MSG_STATUS)

(* C10: the IV transform keeps the length, replaces every byte b by        *)
(* b XOR 0xFF, a value in 0..255, and is its own inverse.                  *)
C10_FlipIsComplement ==
  codec.pc \in {"encrypted", "opened"}
  => /\ Len(codec.flipped_iv) = Len(codec.enc_args.initial_vector)
     /\ \A i \in 1..Len(codec.flipped_iv) :
          /\ codec.flipped_iv[i] = Xor(codec.enc_args.initial_vector[i], 255)
          /\ codec.flipped_iv[i] \in 0..255
     /\ FlipIv(codec.flipped_iv) = codec.enc_args.initial_vector

C10_Witness ==
  /\ codec.pc = "encrypted"
  /\ codec.enc_args.initial_vector = IV_B
  /\ SubSeq(codec.flipped_iv, 1, 3) = <<1, 35, 69>>
  /\ FlipIv(codec.flipped_iv) = IV_B

(* C11: in one request/response cycle the nonce given to GCM by            *)
(* encrypt_response has the length of the request IV that decrypt_request  *)
(* accepted and differs from it in every byte position, so the reply is    *)
(* never sealed under the (key, nonce) pair of the inbound payload.        *)
C11_ResponseNonceDiffers ==
  (/\ codec.pc \in {"encrypted", "opened"}
   /\ codec.body # JNull
   /\ codec.decrypted.exc = "none")
  => /\ codec.enc_args.initial_vector = codec.decrypted.initial_vector
     /\ Len(codec.flipped_iv) = Len(codec.decrypted.initial_vector)
     /\ Len(codec.flipped_iv) > 0
     /\ \A i \in 1..Len(codec.flipped_iv) :
          codec.flipped_iv[i] # codec.decrypted.initial_vector[i]
     /\ <<codec.enc_args.aes_key, codec.flipped_iv>>
          # <<codec.decrypted.aes_key, codec.decrypted.initial_vector>>

C11_Witness ==
  /\ codec.pc = "opened"
  /\ codec.body # JNull
  /\ codec.decrypted.exc = "none"
  /\ codec.decrypted.initial_vector = IV_12
  /\ codec.flipped_iv = Complement(IV_12)
  /\ codec.opened.exc = "none"

(* ---------------------------------------------------------------------- *)
(* Several requests in flight: the event loop runs one handler until its  *)
(* next await (server.py lines 71, 79, 105) and may then resume another    *)
(* ---------------------------------------------------------------------- *)

NumConcurrent == 2

Concurrent == 1..NumConcurrent

ConcurrentBodies == {ENV_PING, ENV_INIT, ENV_KEY_CORRUPT, ENV_LAST_BYTE_CORRUPT}

(* every body correctly signed, and one with a wrong signature *)
ConcurrentPosts ==
  { <<raw_body, Signed(SECRET_A, raw_body)>> : raw_body \in ConcurrentBodies }
  \cup { <<ENV_PING, Corrupt(Signed(SECRET_A, ENV_PING), 8)>> }

InitConcurrent ==
  /\ APP_SECRET = SECRET_A
  /\ PRIVATE_KEY = Pem(1, PW_A)
  /\ PASSPHRASE = PW_A
  /\ req = [r \in Concurrent |-> Idle]
  /\ flow = NoFlow
  /\ verify = NoVerify
  /\ codec = NoCodec

NextConcurrent ==
  \E r \in Concurrent :
    \/ ReceiveFrom(r, ConcurrentPosts)
    \/ AfterBody(r)
    \/ AfterJson(r)
    \/ AfterScreen(r)

SpecConcurrent == InitConcurrent /\ [][NextConcurrent]_vars

(* what the platform sealed a body with *)
SentWith(raw_body) ==
  IF raw_body = ENV_INIT
  THEN [aes_key |-> KEY_B, initial_vector |-> IV_B, message |-> MSG_INIT]
  ELSE [aes_key |-> KEY_A, initial_vector |-> IV_A, message |-> MSG_PING]

(* the platform opens a reply with the key and IV of the request it sent *)
ReplyOpened(q) ==
  LET blob == B64Decode(q.content).val
      sent == SentWith(q.raw_body)
  IN OpenedMessage(GcmDecrypt(sent.aes_key, Complement(sent.initial_vector),
                              SubSeq(blob, 1, Len(blob) - GCM_TAG_LEN),
                              SubSeq(blob, Len(blob) - GCM_TAG_LEN + 1, Len(blob))))

(* C12: whatever the interleaving of the requests in flight, a request     *)
(* answered 200 has run is_request_signature_valid, decrypt_request,       *)
(* get_next_screen and encrypt_response once each in that order,           *)
(* encrypt_response got the key and IV decrypt_request returned for that   *)
(* request (those the platform sealed it with), and its reply opens under  *)
(* them.                                                                   *)
C12_OneCyclePerRequestOwnKey ==
  \A r \in DOMAIN req :
    (req[r].pc = "done" /\ req[r].status = 200)
    => /\ Ops(req[r]) = <<"is_request_signature_valid", "decrypt_request",
                          "get_next_screen", "encrypt_response">>
       /\ req[r].calls[4].aes_key = req[r].calls[2].aes_key
       /\ req[r].calls[4].initial_vector = req[r].calls[2].initial_vector
       /\ req[r].calls[2].aes_key = SentWith(req[r].raw_body).aes_key
       /\ req[r].calls[2].initial_vector = SentWith(req[r].raw_body).initial_vector
       /\ ReplyOpened(req[r]).exc = "none"

(* request 2 ran its whole cycle with its own key while request 1 was      *)
(* suspended between decrypt and encrypt with another key                  *)
C12_Witness ==
  /\ req[1].pc = "await_screen"
  /\ req[1].aes_key = KEY_A
  /\ req[2].pc = "done"
  /\ req[2].status = 200
  /\ req[2].calls[4].aes_key = KEY_B
  /\ ReplyOpened(req[2]).exc = "none"

(* what the platform expects for a POST it sent, whatever else is in flight *)
ExpectedStatus(q) ==
  IF q.signature_header # Signed(SECRET_A, q.raw_body) THEN 432
  ELSE IF q.raw_body = ENV_KEY_CORRUPT THEN 421
  ELSE IF q.raw_body = ENV_LAST_BYTE_CORRUPT THEN 500
  ELSE 200

OutcomeAsAlone(q) ==
  /\ q.status = ExpectedStatus(q)
  /\ ~q.unhandled
  /\ IF q.status = 200
     THEN ReplyOpened(q) = Returns(GetNextScreen(SentWith(q.raw_body).message).val)
     ELSE q.content = <<>>

(* C13: no step of a handler changes APP_SECRET, PRIVATE_KEY or PASSPHRASE *)
(* or anything another request holds, and every finished request has the   *)
(* outcome its own POST determines, whether or not another request in      *)
(* flight failed at the signature check, the key unwrap or the payload     *)
(* decrypt.                                                                *)
C13_NoSharedState ==
  /\ [][/\ APP_SECRET' = APP_SECRET
        /\ PRIVATE_KEY' = PRIVATE_KEY
        /\ PASSPHRASE' = PASSPHRASE
        /\ \A r \in DOMAIN req, o \in DOMAIN req :
             (r # o /\ req'[r] # req[r]) => req'[o] = req[o]]_vars
  /\ [](\A r \in DOMAIN req : req[r].pc = "done" => OutcomeAsAlone(req[r]))

(* request 1 answered 200 next to a request 2 that failed its payload      *)
(* decrypt                                                                 *)
C13_Witness ==
  /\ req[1].pc = "done"
  /\ req[1].status = 200
  /\ req[1].raw_body = ENV_INIT
  /\ req[2].pc = "done"
  /\ req[2].status = 500
  /\ req[2].raw_body = ENV_LAST_BYTE_CORRUPT

(* ---------------------------------------------------------------------- *)
(* One request with a malformed or unusual envelope                        *)
(* ---------------------------------------------------------------------- *)

KEY_32 == [i \in 1..32 |-> (i * 11 + 3) % 256]

KEY_5 == <<1, 2, 3, 4, 5>>

(* payloads shorter than a tag: 15 bytes, and none at all *)
ENV_15 == Envelope([GoodFields EXCEPT !.data = SubSeq(@, 1, 15)])

ENV_EMPTY_DATA == Envelope([GoodFields EXCEPT !.data = <<>>])

(* authentic payloads whose plaintext is no JSON mapping *)
ENV_BAD_UTF8 == Envelope(PeerFields(1, KEY_A, IV_A, <<123, 255, 254, 125>>))

ENV_BAD_JSON == Envelope(PeerFields(1, KEY_A, IV_A, T_not_json))

ENV_ARRAY == Envelope(PeerFields(1, KEY_A, IV_A, Dumps(JArr(<<JInt(1)>>))))

ENV_STRING == Envelope(PeerFields(1, KEY_A, IV_A, Dumps(JStr(T_ping))))

(* wrapped keys of other lengths *)
ENV_KEY_24 == Envelope(PeerFields(1, KEY_24, IV_A, Dumps(MSG_PING)))

ENV_KEY_32 == Envelope(PeerFields(1, KEY_32, IV_B, Dumps(MSG_INIT)))

ENV_KEY_5 == Envelope([GoodFields EXCEPT !.key = RsaOaepEncrypt(1, KEY_5)])

(* a good wrapped key with the payload or the IV missing or undecodable *)
ENV_DATA_MISSING == WireBody(B64Encode(GoodFields.key), None, B64Encode(GoodFields.iv))

ENV_DATA_UNDECODABLE ==
  WireBody(B64Encode(GoodFields.key), T_Q, B64Encode(GoodFields.iv))

ENV_IV_MISSING == WireBody(B64Encode(GoodFields.key), B64Encode(GoodFields.data), None)

ENV_IV_UNDECODABLE ==
  WireBody(B64Encode(GoodFields.key), B64Encode(GoodFields.data), T_Q)

(* a bad or missing wrapped key together with a bad payload and IV *)
ENV_ALL_MISSING == WireBody(None, None, None)

ENV_KEY_MISSING_DATA_SHORT == WireBody(None, B64Encode(<<1, 2, 3>>), T_Q)

ENV_KEY_CORRUPT_DATA_MISSING ==
  WireBody(B64Encode(Corrupt(GoodFields.key, 3)), None, None)

ENV_KEY_UNDECODABLE_DATA_CORRUPT ==
  WireBody(T_Q, B64Encode(Corrupt(GoodFields.data, 1)), B64Encode(GoodFields.iv))

MalformedBodies ==
  { ENV_PING, ENV_SHORT, ENV_15, ENV_EMPTY_DATA,
    ENV_BAD_UTF8, ENV_BAD_JSON, ENV_ARRAY, ENV_STRING,
    ENV_KEY_24, ENV_KEY_32, ENV_KEY_5,
    ENV_DATA_MISSING, ENV_DATA_UNDECODABLE, ENV_IV_MISSING, ENV_IV_UNDECODABLE,
    ENV_LAST_BYTE_CORRUPT, ENV_KEY_MISSING, ENV_KEY_CORRUPT, ENV_KEY_UNDECODABLE,
    ENV_ALL_MISSING, ENV_KEY_MISSING_DATA_SHORT, ENV_KEY_CORRUPT_DATA_MISSING,
    ENV_KEY_UNDECODABLE_DATA_CORRUPT }

MalformedPosts ==
  { <<raw_body, Signed(SECRET_A, raw_body)>> : raw_body \in MalformedBodies }
  \cup { <<ENV_SHORT, Corrupt(Signed(SECRET_A, ENV_SHORT), 8)>> }

InitMalformed ==
  /\ APP_SECRET = SECRET_A
  /\ PRIVATE_KEY \in {Pem(1, None), Pem(1, PW_A)}
  /\ PASSPHRASE \in Passphrases
  /\ req = [r \in {1} |-> Idle]
  /\ flow = NoFlow
  /\ verify = NoVerify
  /\ codec = NoCodec

NextMalformed ==
  \/ ReceiveFrom(1, MalformedPosts)
  \/ AfterBody(1)
  \/ AfterJson(1)
  \/ AfterScreen(1)

SpecMalformed == InitMalformed /\ [][NextMalformed]_vars

ShortFlowData(q) ==
  /\ FlowData(q).exc = "none"
  /\ Len(FlowData(q).val) < TAG_LENGTH

(* C15: a request that reached decrypt_request with an encrypted_flow_data *)
(* that decodes to fewer than 16 bytes (none included) is answered with a  *)
(* failure status by the handler's own except clauses: no plaintext, no    *)
(* get_next_screen, and no exception leaving the handler.                  *)
C15_ShortPayloadRejected ==
  \A r \in DOMAIN req :
    (Called(req[r], "decrypt_request") /\ ShortFlowData(req[r]))
    => /\ req[r].pc = "done"
       /\ req[r].status \in {421, 500}
       /\ ~req[r].unhandled
       /\ req[r].content = <<>>
       /\ req[r].decrypted_body = JNull
       /\ ~Called(req[r], "get_next_screen")

C15_Witness ==
  /\ req[1].raw_body = ENV_EMPTY_DATA
  /\ Called(req[1], "decrypt_request")
  /\ KeyUnwrapSuccess(req[1])
  /\ FlowData(req[1]).val = <<>>
  /\ req[1].status = 500
  /\ ~req[1].unhandled

(* the bytes the authenticated decrypt of a request's payload yields *)
Plaintext(q) ==
  GcmDecrypt(Unwrapped(q).val, FlowIv(q).val,
             FlowDataBody(FlowData(q).val), FlowDataTag(FlowData(q).val))

(* authentic, but invalid UTF-8, invalid JSON or JSON that is no mapping *)
MalformedPlaintext(q) ==
  /\ KeyUnwrapSuccess(q)
  /\ FlowData(q).exc = "none"
  /\ FlowIv(q).exc = "none"
  /\ Plaintext(q).exc = "none"
  /\ \/ Utf8Decode(Plaintext(q).val).exc # "none"
     \/ Loads(Plaintext(q).val).exc # "none"
     \/ ~IsObj(Loads(Plaintext(q).val).val)

(* C16: when the authenticated decrypt succeeds but the plaintext is       *)
(* invalid UTF-8, invalid JSON or JSON whose top level is no mapping,      *)
(* decrypt_request fails, the handler answers 500 from its except clause,  *)
(* no non-mapping plaintext reaches the handler and get_next_screen is not *)
(* called.                                                                 *)
C16_MalformedPlaintextIsDecryptError ==
  \A r \in DOMAIN req :
    (Called(req[r], "decrypt_request") /\ MalformedPlaintext(req[r]))
    => /\ DecryptRequest(Wire(req[r]), PRIVATE_KEY, PASSPHRASE).exc # "none"
       /\ req[r].pc = "done"
       /\ req[r].status = 500
       /\ ~req[r].unhandled
       /\ req[r].decrypted_body = JNull
       /\ ~Called(req[r], "get_next_screen")

(* the log records of a request that the configured level lets through *)
EmittedLog(q) == SelectSeq(q.log, Emitted)

(* C17: no log record written for a request carries a value of the         *)
(* decrypted plaintext, the key, the IV or the text of a caught exception; *)
(* a failure response has no body; and two finished requests that took the *)
(* same steps to the same status, differing only in plaintext and key      *)
(* material, leave the same log records.                                   *)
C17_NothingSecretLogged ==
  \A r \in DOMAIN req :
    /\ \A i \in 1..Len(EmittedLog(req[r])) :
         \A a \in 1..Len(EmittedLog(req[r])[i].args) :
           EmittedLog(req[r])[i].args[a].kind \notin {"plaintext", "exception"}
    /\ req[r].status \in {421, 432, 500} => req[r].content = <<>>
    /\ \A o \in DOMAIN req :
         (/\ req[r].pc = "done"
          /\ req[o].pc = "done"
          /\ req[r].status = req[o].status
          /\ Ops(req[r]) = Ops(req[o]))
         => EmittedLog(req[r]) = EmittedLog(req[o])

(* C19: a request whose wrapped key unwraps to a key that is not 16 bytes  *)
(* long is rejected by decrypt_request: the handler answers a failure      *)
(* status, and the key is neither used for the payload nor handed to       *)
(* encrypt_response.                                                       *)
C19_KeyLengthValidated ==
  \A r \in DOMAIN req :
    (/\ Called(req[r], "decrypt_request")
     /\ KeyUnwrapSuccess(req[r])
     /\ Len(Unwrapped(req[r]).val) # 16)
    => /\ DecryptRequest(Wire(req[r]), PRIVATE_KEY, PASSPHRASE).exc # "none"
       /\ req[r].pc = "done"
       /\ req[r].status \in {421, 500}
       /\ req[r].aes_key = <<>>
       /\ ~Called(req[r], "encrypt_response")

(* encrypted_aes_key missing, no base64, or not a key wrapped for the      *)
(* configured key pair                                                     *)
InvalidWrappedKey(q) ==
  \/ WrappedKey(q).exc # "none"
  \/ RsaOaepDecrypt(PRIVATE_KEY.kp, WrappedKey(q).val).exc # "none"

(* payload or IV missing, undecodable, or the payload unauthenticated *)
InvalidPayloadOrIv(q) ==
  \/ FlowData(q).exc # "none"
  \/ FlowIv(q).exc # "none"
  \/ Plaintext(q).exc # "none"

(* C20: a request that reached decrypt_request with an invalid or missing  *)
(* encrypted_aes_key is answered 421 whatever the state of its payload and *)
(* IV, and a request answered 500 for its payload or IV has had its key    *)
(* unwrapped.                                                              *)
C20_KeyUnwrapPrecedesPayload ==
  \A r \in DOMAIN req :
    (Called(req[r], "decrypt_request") /\ IsObj(Wire(req[r])))
    => /\ InvalidWrappedKey(req[r]) => req[r].status = 421
       /\ (/\ req[r].status = 500
           /\ ~InvalidWrappedKey(req[r])
           /\ InvalidPayloadOrIv(req[r])) => Len(Unwrapped(req[r]).val) > 0

(* C21: while PRIVATE_KEY is not configured, a request is either not yet   *)
(* received or already answered 500: it never waits for its body, never    *)
(* reaches is_request_signature_valid or decrypt_request, and is never     *)
(* answered 432, whatever its signature.                                   *)
C21_NoKeyFailsFirst ==
  ~PRIVATE_KEY.present
  => \A r \in DOMAIN req :
       /\ req[r].pc \in {"idle", "done"}
       /\ req[r].calls = <<>>
       /\ req[r].status # 432
       /\ req[r].pc = "done"
            => /\ req[r].status = 500
               /\ ~req[r].unhandled
               /\ req[r].content = HttpExceptionBody(T_private_key_empty)

(* a POST with a wrong signature, answered 500 and not 432 *)
C21_Witness ==
  /\ ~PRIVATE_KEY.present
  /\ APP_SECRET = SECRET_A
  /\ \E r \in DOMAIN req :
       /\ req[r].pc = "done"
       /\ req[r].status = 500
       /\ req[r].signature_header = Corrupt(Signed(SECRET_A, ENV_PING), 8)
       /\ ~SignatureCheck(req[r]).ret

(* ---------------------------------------------------------------------- *)
(* A client of get_next_screen: sends a request, receives the response,    *)
(* and may feed the returned screen back as a data_exchange                *)
(* ---------------------------------------------------------------------- *)

T_BACK == S("BACK")

T_init == S("init")

T_OTHER == S("OTHER")

T_welcome == S("welcome")

T_Ann == S("Ann")

T_ann_mail == S("ann@example.org")

T_555 == S("555")

(* the "action" member of a request, or no such member *)
FlowActions ==
  { <<>> }
  \cup { << <<T_action, action>> >> :
           action \in {JStr(T_ping), JStr(T_INIT), JStr(T_data_exchange),
                       JStr(T_BACK), JStr(T_init), JNull, JInt(7)} }

FlowScreens ==
  { <<>> }
  \cup { << <<T_screen, screen>> >> :
           screen \in {JStr(T_WELCOME), JStr(T_DETAILS), JStr(T_SUCCESS),
                       JStr(T_OTHER), JStr(T_welcome), JNull} }

(* form data: absent, a mapping, or a value that is not a mapping *)
FlowForms == {"absent", "empty", "name", "details", "null", "string", "array"}

Form(form) ==
  CASE form = "absent" -> <<>>
    [] form = "empty" -> << <<T_data, JObj(<<>>)>> >>
    [] form = "name" -> << <<T_data, Obj1(T_name, JStr(T_Ann))>> >>
    [] form = "details" ->
         << <<T_data, Obj3(T_name, JStr(T_Ann), T_email, JStr(T_ann_mail),
                           T_phone, JStr(T_555))>> >>
    [] form = "null" -> << <<T_data, JNull>> >>
    [] form = "string" -> << <<T_data, JStr(T_Ann)>> >>
    [] OTHER -> << <<T_data, JArr(<<>>)>> >>

FlowTokens == { <<>>, << <<T_flow_token, JStr(T_tok)>> >> }

FlowVersions == { <<>>, << <<T_version, JStr(T_3_0)>> >> }

FlowRequest(action, screen, data, flow_token, version) ==
  JObj(version \o action \o screen \o data \o flow_token)

IsMapping(data) == data = <<>> \/ IsObj(data[1][2])

IsAction(request, name) == JEq(Get(request, T_action, JNull), JStr(name))

IsScreen(request, name) == JEq(Get(request, T_screen, JNull), JStr(name))

InitFlow ==
  /\ APP_SECRET = None
  /\ PRIVATE_KEY = PemUnset
  /\ PASSPHRASE = <<>>
  /\ req = [r \in Reqs |-> Idle]
  /\ verify = NoVerify
  /\ codec = NoCodec
  /\ flow = [NoFlow EXCEPT !.pc = "idle"]

(* the client opens a conversation with any request *)
ClientSends ==
  /\ flow.pc = "idle"
  /\ \E action \in FlowActions, screen \in FlowScreens, form \in FlowForms,
        flow_token \in FlowTokens, version \in FlowVersions :
       flow' = [flow EXCEPT
         !.pc = "sent",
         !.request = FlowRequest(action, screen, Form(form), flow_token, version),
         !.starts_with_init = (action = << <<T_action, JStr(T_INIT)>> >>),
         !.mappings_only = IsMapping(Form(form)),
         !.exchanges =
           IF action = << <<T_action, JStr(T_data_exchange)>> >> THEN 1 ELSE 0]
  /\ UNCHANGED <<APP_SECRET, PRIVATE_KEY, PASSPHRASE, req, verify, codec>>

(* response = get_next_screen(decrypted_body) *)
GetNextScreenCall ==
  /\ flow.pc = "sent"
  /\ flow' = [flow EXCEPT
       !.pc = "answered",
       !.response = GetNextScreen(flow.request),
       !.screens =
         IF /\ GetNextScreen(flow.request).exc = "none"
            /\ HasKey(GetNextScreen(flow.request).val, T_screen)
         THEN Append(@, Get(GetNextScreen(flow.request).val, T_screen, JNull))
         ELSE @]
  /\ UNCHANGED <<APP_SECRET, PRIVATE_KEY, PASSPHRASE, req, verify, codec>>

(* the client submits the screen it was shown: a data_exchange that names  *)
(* the returned screen                                                     *)
ClientFeedsBack ==
  /\ flow.pc = "answered"
  /\ flow.response.exc = "none"
  /\ HasKey(flow.response.val, T_screen)
  /\ \E form \in FlowForms :
       flow' = [flow EXCEPT
         !.pc = "sent",
         !.request =
           FlowRequest(<< <<T_action, JStr(T_data_exchange)>> >>,
                       << <<T_screen, Get(flow.response.val, T_screen, JNull)>> >>,
                       Form(form),
                       << <<T_flow_token, Get(flow.request, T_flow_token, JNull)>> >>,
                       << <<T_version, Get(flow.response.val, T_version, JNull)>> >>),
         !.mappings_only = @ /\ IsMapping(Form(form)),
         !.exchanges = @ + 1]
  /\ UNCHANGED <<APP_SECRET, PRIVATE_KEY, PASSPHRASE, req, verify, codec>>

NextFlow ==
  \/ ClientSends
  \/ GetNextScreenCall
  \/ ClientFeedsBack

SpecFlow == InitFlow /\ [][NextFlow]_vars

(* the response names this screen *)
YieldsScreen(response, name) ==
  /\ response.exc = "none"
  /\ JEq(Get(response.val, T_screen, JNull), JStr(name))

(* the completion response: extension_message_response and no screen key *)
Completion(response) ==
  /\ response.exc = "none"
  /\ ~HasKey(response.val, T_screen)
  /\ IsObj(Get(response.val, T_data, JNull))
  /\ HasKey(Get(response.val, T_data, JNull), T_extension_message_response)

(* a response with an error entry and no screen key *)
ErrorResponse(response) ==
  /\ response.exc = "none"
  /\ ~HasKey(response.val, T_screen)
  /\ IsObj(Get(response.val, T_data, JNull))
  /\ HasKey(Get(response.val, T_data, JNull), T_error)

SentMapping(request) == IsObj(Get(request, T_data, JObj(<<>>)))

UnknownAction(request) ==
  /\ ~IsAction(request, T_ping)
  /\ ~IsAction(request, T_INIT)
  /\ ~IsAction(request, T_data_exchange)

UnknownScreen(request) ==
  /\ IsAction(request, T_data_exchange)
  /\ ~IsScreen(request, T_WELCOME)
  /\ ~IsScreen(request, T_DETAILS)
  /\ ~IsScreen(request, T_SUCCESS)

Progression == <<JStr(T_WELCOME), JStr(T_DETAILS), JStr(T_SUCCESS)>>

====
